---------------------------- MODULE Spec2Model ----------------------------
(***************************************************************************)
(* Gesture-to-interaction engine of the hand-tracked painting experiences. *)
(*                                                                         *)
(* One step of the model is one run of a canvas component's render()       *)
(* callback.  Two experiences are modelled: the strings canvas             *)
(* (StarryNightCanvas, the plain and the rhythm copy share this logic)     *)
(* and the guitar canvas (TreeOfLifeCanvas).  currentView says which one   *)
(* is mounted.                                                             *)
(*                                                                         *)
(* Numbers.  Landmark coordinates are normalized to [0,1] in the source;   *)
(* here they are integers in thousandths (NORM = 1000).  Overlay positions *)
(* are whole pixels of an overlayW x overlayH canvas.  Distances are       *)
(* compared through their squares, which is exact on integers.  lerp and   *)
(* the vibration decay are fixed point: they round down to the grid, where *)
(* the source rounds to the nearest double.                                *)
(*                                                                         *)
(* Two specifications: Spec follows the hand gestures from the mount of a  *)
(* canvas (spawn, lock, unlock); SpecPluck follows fingertips sweeping     *)
(* across the strings of a canvas that has just become Active.             *)
(*                                                                         *)
(* React state (isStringsActive, isLocked, isGuitarActive) is read by a    *)
(* frame from the closure of the render effect, i.e. with the value it had *)
(* when the frame started; updates requested during a frame are committed  *)
(* (and the effect re-created) before the next frame runs.                 *)
(***************************************************************************)
EXTENDS Integers, Sequences, FiniteSets, TLC

VARIABLES
    currentView,                \* App: which experience is mounted
    now,                        \* Date.now() as read by the last frame
    latestLandmarksRef,         \* hand snapshot the last frame consumed
    isStringsActive,            \* strings canvas: useState
    isLocked,                   \* strings canvas: useState
    isGuitarActive,             \* guitar canvas: useState
    spawnProgressFrameCounter,  \* useRef<number>
    lockProgressFrameCounter,   \* useRef<number>
    hasSpawnToggledRef,         \* useRef<boolean>
    currentStringCoordsRef,     \* useRef<{p1,p2} | null>
    lockedStringDataRef,        \* useRef<LockedStringState | null>
    stringVibrationRef,         \* useRef<number[]> ([0,0,0])
    guitarStringsRef,           \* useRef<GuitarString[]>: the six vibrations
    lastPluckTimeRef,           \* useRef<number>
    lastStrumTimeRef,           \* useRef<number>
    prevFingerPosRef,           \* useRef<Map<string, Point>>
    frame,                      \* locals and side-effect requests of the last frame
    geo,                        \* geoUtils: the arguments and the result of the last call
    musicPlayer,                \* MusicPlayer: isPlaying and the playback clock, in ms
    activeNotes,                \* NoteManager.activeNotes
    nextNoteIndex,              \* NoteManager.nextNoteIndex
    noteIdCounter,              \* NoteManager.noteIdCounter
    noteCall,                   \* the last call of the NoteManager and what it returned
    noteHistory,                \* activations and hits counted since the last reset
    onExit,                     \* guitar canvas: whether the onExit prop was given
    openHoldStartRef,           \* useRef<number | null>
    openTriggeredRef,           \* useRef(false)
    melodyIndex,                \* guitar canvas: useState<number>(0)
    pinchStartTimeRef,          \* useRef<number | null>
    pinchHasToggledRef,         \* useRef<boolean>(false)
    pinchProgressRef,           \* useRef<number>(0), in thousandths
    toggleFlashUntilRef,        \* useRef<number>(0)
    handCall,                   \* the last call of a hand classifier and its result
    hitStates,                  \* drums: useState<Record<string, boolean>>({})
    lastHitTime,                \* drums: useRef<Record<string, number>>({})
    handResults                 \* drums: the Results the tracker delivered last

\* the state of the drum experience
drumVars == <<hitStates, lastHitTime, handResults>>

vars == <<currentView, now, latestLandmarksRef, isStringsActive, isLocked,
          isGuitarActive, spawnProgressFrameCounter, lockProgressFrameCounter,
          hasSpawnToggledRef, currentStringCoordsRef, lockedStringDataRef,
          stringVibrationRef, guitarStringsRef, lastPluckTimeRef,
          lastStrumTimeRef, prevFingerPosRef, frame, geo, musicPlayer, activeNotes,
          nextNoteIndex, noteIdCounter, noteCall, noteHistory, drumVars, onExit,
          openHoldStartRef, openTriggeredRef, melodyIndex, pinchStartTimeRef,
          pinchHasToggledRef, pinchProgressRef, toggleFlashUntilRef, handCall>>

gestureVars == <<drumVars, onExit, openHoldStartRef, openTriggeredRef, melodyIndex, pinchStartTimeRef,
                 pinchHasToggledRef, pinchProgressRef, toggleFlashUntilRef, handCall>>

noteVars == <<musicPlayer, activeNotes, nextNoteIndex, noteIdCounter, noteCall, noteHistory>>

\* what the canvases' frames leave alone
utilVars == <<geo, noteVars>>

---------------------------------------------------------------------------
(* Program constants *)

NORM == 1000                        \* one normalized unit, in thousandths
SPAWN_DISTANCE_THRESHOLD == 80      \* 0.08
SPAWN_TIME_REQUIRED == 60
LOCK_DISTANCE_THRESHOLD == 550      \* 0.55
UNLOCK_DISTANCE_THRESHOLD == 250    \* 0.25
LOCK_TIME_REQUIRED == 30
STRING_GAP == 25
PLUCK_COOLDOWN == 150
STRUM_COOLDOWN == 1100
PLUCKED == 20                       \* stringVibrationRef.current[vibIndex] = 20
VIBRATION_DECAY == 85               \* 0.85, in hundredths
overlayW == 200                     \* overlayCanvas.width
overlayH == 200                     \* overlayCanvas.height

(* Bounds of the model *)

MountTime == 2000                   \* Date.now() when the canvas mounts
MaxTime == 2400                     \* the clock is followed up to here
HoldFrames == 65                    \* hold lengths are told apart up to here

null == <<>>

Max(a, b) == IF a >= b THEN a ELSE b
Min(a, b) == IF a <= b THEN a ELSE b
Pt(x, y) == [x |-> x, y |-> y]

---------------------------------------------------------------------------
(* Geometry utilities *)

ccw(a, b, c) == (c.y - a.y) * (b.x - a.x) > (b.y - a.y) * (c.x - a.x)

\* a variant that only asks whether p1 and p2 lie on different sides of p3-p4
segmentsIntersectBadOneSided(p1, p2, p3, p4) ==
    ccw(p1, p3, p4) # ccw(p2, p3, p4)

\* a variant that only asks whether p3 and p4 lie on different sides of p1-p2
segmentsIntersectBadOtherSided(p1, p2, p3, p4) ==
    ccw(p1, p2, p3) # ccw(p1, p2, p4)

\* a variant that asks on which side of p1-p2 the point p4 is, not whether it moved
segmentsIntersectBadNoMotion(p1, p2, p3, p4) ==
    ccw(p1, p2, p4)

segmentsIntersect(p1, p2, p3, p4) ==
    /\ ccw(p1, p3, p4) # ccw(p2, p3, p4)
    /\ ccw(p1, p2, p3) # ccw(p1, p2, p4)

\* no call of segmentsIntersect made yet
NoCall == [args |-> <<>>, called |-> FALSE, result |-> FALSE]

\* Math.sqrt on the pixel grid, rounded down
Isqrt(n) == CHOOSE r \in 0..(overlayW + overlayH) : r * r <= n /\ n < (r + 1) * (r + 1)

Abs(a) == IF a < 0 THEN 0 - a ELSE a

\* Math.sqrt(vx*vx + vy*vy)
Hypot(vx, vy) ==
    IF vy = 0 THEN Abs(vx) ELSE IF vx = 0 THEN Abs(vy) ELSE Isqrt(vx * vx + vy * vy)

\* lerp(start, end, STRING_SMOOTHING) with STRING_SMOOTHING = 0.2
lerp(start, end) == (4 * start + end) \div 5

\* landmark (thousandths) to overlay pixels: x * overlayW, y * overlayH
ToOverlay(lm) == Pt((lm.x * overlayW) \div NORM, (lm.y * overlayH) \div NORM)

\* dx*dx + dy*dy of two landmarks, in thousandths squared
Dist2(a, b) == (a.x - b.x) * (a.x - b.x) + (a.y - b.y) * (a.y - b.y)


---------------------------------------------------------------------------
(* Hand snapshots.  A hand is a function from the landmark indices the     *)
(* tracker delivered to landmarks; a snapshot is null (no result yet, or   *)
(* results.multiHandLandmarks undefined) or a list of at most two hands.   *)

Snapshot(hs) == [some |-> TRUE, hands |-> hs]

\* the drums of the drum experience: centre and radius, in hundredths of a
\* world unit, in the order of the DRUMS array
DRUMS ==
    << [id |-> "KICK", x |-> 0, y |-> 0 - 250, radius |-> 120],
       [id |-> "SNARE", x |-> 0 - 300, y |-> 0 - 50, radius |-> 100],
       [id |-> "CYMBAL_L", x |-> 0 - 350, y |-> 250, radius |-> 90],
       [id |-> "CYMBAL_R", x |-> 350, y |-> 250, radius |-> 90] >>

DrumIds == {DRUMS[i].id : i \in 1..Len(DRUMS)}

\* handResults.current before the tracker has delivered anything
NullResults == [current |-> FALSE, some |-> FALSE, hands |-> <<>>]

\* no drum lit, no drum hit yet: {} read with !hitStates[id] and lastHitTime[id] || 0
DrumsInit ==
    /\ hitStates = [d \in DrumIds |-> FALSE]
    /\ lastHitTime = [d \in DrumIds |-> 0]
    /\ handResults = NullResults
NoSnapshot == [some |-> FALSE, hands |-> <<>>]

TipOrder == <<8, 12, 16, 20>>

\* the id `h${handIndex}-f${tipIdx}` (hand indices count from 0)
TipId(handIndex, tipIdx) == <<handIndex, tipIdx>>

\* The fingertips of a snapshot in the order the two nested forEach visit
\* them, each with its id and its overlay position (currentFingerPos).
RECURSIVE TipsFrom(_, _, _)
TipsFrom(hs, h, t) ==
    IF h > Len(hs) THEN <<>>
    ELSE IF t > Len(TipOrder) THEN TipsFrom(hs, h + 1, 1)
    ELSE IF TipOrder[t] \in DOMAIN hs[h]
         THEN <<[id |-> TipId(h - 1, TipOrder[t]), lm |-> hs[h][TipOrder[t]],
                 pos |-> ToOverlay(hs[h][TipOrder[t]])]>> \o TipsFrom(hs, h, t + 1)
         ELSE TipsFrom(hs, h, t + 1)

CurrentFingerPos(tips) ==
    [id \in {tips[i].id : i \in 1..Len(tips)} |->
        tips[CHOOSE i \in 1..Len(tips) : tips[i].id = id].pos]

---------------------------------------------------------------------------
(* Interaction state machine: spawn / despawn, lock, unlock *)

\* dist < threshold, dist > threshold, dist > 1.5 * threshold, on squares
DistBelow(d2, thr) == d2 < thr * thr
DistAbove(d2, thr) == d2 > thr * thr
DistAboveRearm(d2, thr) == 4 * d2 > 9 * thr * thr

\* 1. SPAWN / DESPAWN LOGIC (Close Hands)
SpawnLogicBadNoReset(cnt, latch, d2) ==
    IF DistBelow(d2, SPAWN_DISTANCE_THRESHOLD)
    THEN IF ~latch
         THEN IF cnt + 1 >= SPAWN_TIME_REQUIRED
              THEN [cnt |-> cnt + 1, latch |-> TRUE, toggle |-> TRUE, isSpawning |-> TRUE]
              ELSE [cnt |-> cnt + 1, latch |-> FALSE, toggle |-> FALSE, isSpawning |-> TRUE]
         ELSE [cnt |-> cnt, latch |-> latch, toggle |-> FALSE, isSpawning |-> FALSE]
    ELSE [cnt |-> Max(0, cnt - 5),
          latch |-> IF DistAboveRearm(d2, SPAWN_DISTANCE_THRESHOLD) THEN FALSE ELSE latch,
          toggle |-> FALSE, isSpawning |-> FALSE]

\* a spawn hold that starts from scratch after any separation
SpawnLogicBadResetOnGap(cnt, latch, d2) ==
    IF DistBelow(d2, SPAWN_DISTANCE_THRESHOLD)
    THEN IF ~latch
         THEN IF cnt + 1 >= SPAWN_TIME_REQUIRED
              THEN [cnt |-> 0, latch |-> TRUE, toggle |-> TRUE, isSpawning |-> TRUE]
              ELSE [cnt |-> cnt + 1, latch |-> FALSE, toggle |-> FALSE, isSpawning |-> TRUE]
         ELSE [cnt |-> cnt, latch |-> latch, toggle |-> FALSE, isSpawning |-> FALSE]
    ELSE [cnt |-> 0,
          latch |-> IF DistAboveRearm(d2, SPAWN_DISTANCE_THRESHOLD) THEN FALSE ELSE latch,
          toggle |-> FALSE, isSpawning |-> FALSE]

SpawnLogicBadRearm(cnt, latch, d2) ==
    IF DistBelow(d2, SPAWN_DISTANCE_THRESHOLD)
    THEN IF ~latch
         THEN IF cnt + 1 >= SPAWN_TIME_REQUIRED
              THEN [cnt |-> 0, latch |-> TRUE, toggle |-> TRUE, isSpawning |-> TRUE]
              ELSE [cnt |-> cnt + 1, latch |-> FALSE, toggle |-> FALSE, isSpawning |-> TRUE]
         ELSE [cnt |-> cnt, latch |-> latch, toggle |-> FALSE, isSpawning |-> FALSE]
    ELSE [cnt |-> Max(0, cnt - 5), latch |-> FALSE,
          toggle |-> FALSE, isSpawning |-> FALSE]

SpawnLogic(cnt, latch, d2) ==
    IF DistBelow(d2, SPAWN_DISTANCE_THRESHOLD)
    THEN IF ~latch
         THEN IF cnt + 1 >= SPAWN_TIME_REQUIRED
              THEN [cnt |-> 0, latch |-> TRUE, toggle |-> TRUE, isSpawning |-> TRUE]
              ELSE [cnt |-> cnt + 1, latch |-> FALSE, toggle |-> FALSE, isSpawning |-> TRUE]
         ELSE [cnt |-> cnt, latch |-> latch, toggle |-> FALSE, isSpawning |-> FALSE]
    ELSE [cnt |-> Max(0, cnt - 5),
          latch |-> IF DistAboveRearm(d2, SPAWN_DISTANCE_THRESHOLD) THEN FALSE ELSE latch,
          toggle |-> FALSE, isSpawning |-> FALSE]

\* the else-branch of landmarksData.length >= 2: the counter is set to 0; two
\* hands of which one has no index fingertip leave it alone
WithoutPairBadKeep(twoHands, cnt) == cnt

WithoutPair(twoHands, cnt) == IF twoHands THEN cnt ELSE 0

\* 2. LOCKING LOGIC (Only if Active): the counter and whether setIsLocked(true) is called
LockLogicBadNoHold(active, locked, cnt, d2) ==
    IF active /\ ~locked
    THEN IF DistAbove(d2, LOCK_DISTANCE_THRESHOLD)
         THEN [cnt |-> 0, lock |-> TRUE, isLocking |-> TRUE]
         ELSE [cnt |-> 0, lock |-> FALSE, isLocking |-> FALSE]
    ELSE [cnt |-> cnt, lock |-> FALSE, isLocking |-> FALSE]

LockLogicBadAnyMode(active, locked, cnt, d2) ==
    IF ~locked
    THEN IF DistAbove(d2, LOCK_DISTANCE_THRESHOLD)
         THEN IF cnt + 1 >= LOCK_TIME_REQUIRED
              THEN [cnt |-> 0, lock |-> TRUE, isLocking |-> TRUE]
              ELSE [cnt |-> cnt + 1, lock |-> FALSE, isLocking |-> TRUE]
         ELSE [cnt |-> 0, lock |-> FALSE, isLocking |-> FALSE]
    ELSE [cnt |-> cnt, lock |-> FALSE, isLocking |-> FALSE]

LockLogic(active, locked, cnt, d2) ==
    IF active /\ ~locked
    THEN IF DistAbove(d2, LOCK_DISTANCE_THRESHOLD)
         THEN IF cnt + 1 >= LOCK_TIME_REQUIRED
              THEN [cnt |-> 0, lock |-> TRUE, isLocking |-> TRUE]
              ELSE [cnt |-> cnt + 1, lock |-> FALSE, isLocking |-> TRUE]
         ELSE [cnt |-> 0, lock |-> FALSE, isLocking |-> FALSE]
    ELSE [cnt |-> cnt, lock |-> FALSE, isLocking |-> FALSE]

\* lockedStringDataRef.current = { p1: current ? current.p1 : detectedP1, ... }
FreezeBadRaw(coords, detectedP1, detectedP2) == [p1 |-> detectedP1, p2 |-> detectedP2]

Freeze(coords, detectedP1, detectedP2) ==
    [p1 |-> IF coords # null THEN coords.p1 ELSE detectedP1,
     p2 |-> IF coords # null THEN coords.p2 ELSE detectedP2]

\* 3. UNLOCK LOGIC: isLocked && dist < UNLOCK_DISTANCE_THRESHOLD
\* a lock that no gesture opens
UnlockLogicBadNever(locked, d2) == FALSE

UnlockLogicBadLockThreshold(locked, d2) == locked /\ ~DistAbove(d2, LOCK_DISTANCE_THRESHOLD)

UnlockLogic(locked, d2) == locked /\ DistBelow(d2, UNLOCK_DISTANCE_THRESHOLD)

---------------------------------------------------------------------------
(* String geometry model (strings canvas) *)

\* a decay that amplifies
DecayBadGrow(v) == Max(0, (v * (200 - VIBRATION_DECAY)) \div 100)

\* stringVibrationRef.current.map(v => Math.max(0, v * VIBRATION_DECAY))
Decay(v) == Max(0, (v * VIBRATION_DECAY) \div 100)

\* vibIndex = line.index === 1 ? 0 : line.index === 0 ? 1 : 2 (slots count from 0)
VibIndex(index) == IF index = 1 THEN 0 ELSE IF index = 0 THEN 1 ELSE 2

\* The smoothed anchors after a frame that tracks detectedP1, detectedP2
Smooth(coords, detectedP1, detectedP2) ==
    IF coords = null
    THEN [p1 |-> detectedP1, p2 |-> detectedP2]
    ELSE [p1 |-> Pt(lerp(coords.p1.x, detectedP1.x), lerp(coords.p1.y, detectedP1.y)),
          p2 |-> Pt(lerp(coords.p2.x, detectedP2.x), lerp(coords.p2.y, detectedP2.y))]

\* renderP1 / renderP2 and the new currentStringCoordsRef:
\* locked data wins, else the smoothed detected anchors, else nothing
RenderAnchorsBadTrack(locked, coords, detected) ==
    IF detected # null
    THEN LET c == Smooth(coords, detected.p1, detected.p2) IN [render |-> c, coords |-> c]
    ELSE IF locked # null
    THEN [render |-> locked, coords |-> IF coords # null THEN locked ELSE coords]
    ELSE [render |-> null, coords |-> coords]

RenderAnchors(locked, coords, detected) ==
    IF locked # null
    THEN [render |-> locked, coords |-> IF coords # null THEN locked ELSE coords]
    ELSE IF detected # null
    THEN LET c == Smooth(coords, detected.p1, detected.p2) IN [render |-> c, coords |-> c]
    ELSE [render |-> null, coords |-> coords]

\* three strings pushed in the order -1, 0, 1
StringLinesBadReversed(render) ==
    IF render = null THEN <<>>
    ELSE LET vx == render.p2.x - render.p1.x
             vy == render.p2.y - render.p1.y
             len == Hypot(vx, vy)
         IN  IF len > 0
             THEN LET gx == ((0 - vy) * STRING_GAP) \div len
                      gy == (vx * STRING_GAP) \div len
                  IN  << [p1 |-> Pt(render.p1.x - gx, render.p1.y - gy),
                          p2 |-> Pt(render.p2.x - gx, render.p2.y - gy), index |-> -1],
                         [p1 |-> render.p1, p2 |-> render.p2, index |-> 0],
                         [p1 |-> Pt(render.p1.x + gx, render.p1.y + gy),
                          p2 |-> Pt(render.p2.x + gx, render.p2.y + gy), index |-> 1] >>
             ELSE <<>>

\* currentStringLines: three parallel strings, pushed in the order 1, 0, -1
StringLines(render) ==
    IF render = null THEN <<>>
    ELSE LET vx == render.p2.x - render.p1.x
             vy == render.p2.y - render.p1.y
             len == Hypot(vx, vy)
         IN  IF len > 0
             THEN LET gx == ((0 - vy) * STRING_GAP) \div len    \* px * STRING_GAP
                      gy == (vx * STRING_GAP) \div len          \* py * STRING_GAP
                  IN  << [p1 |-> Pt(render.p1.x + gx, render.p1.y + gy),
                          p2 |-> Pt(render.p2.x + gx, render.p2.y + gy), index |-> 1],
                         [p1 |-> render.p1, p2 |-> render.p2, index |-> 0],
                         [p1 |-> Pt(render.p1.x - gx, render.p1.y - gy),
                          p2 |-> Pt(render.p2.x - gx, render.p2.y - gy), index |-> -1] >>
             ELSE <<>>

---------------------------------------------------------------------------
(* Pluck hit detector (strings canvas) *)

\* Observation only: the (fingertip, string) pairs whose motion segment, from the
\* stored previous position to the current one, intersects the string; k scales
\* overlay pixels to the unit of the string segments.
Scale(p, k) == Pt(p.x * k, p.y * k)

Crossings(tips, lines, prevMap, k) ==
    { <<tips[j].id, lines[i].index>> : <<j, i>> \in
        { c \in (1..Len(tips)) \X (1..Len(lines)) :
            /\ tips[c[1]].id \in DOMAIN prevMap
            /\ segmentsIntersect(lines[c[2]].p1, lines[c[2]].p2,
                                 Scale(prevMap[tips[c[1]].id], k), Scale(tips[c[1]].pos, k)) } }

\* prevFingerPosRef.current.get(id)
PrevOverlayBadDefault(prevMap, id) ==
    IF id \in DOMAIN prevMap THEN prevMap[id] ELSE Pt(0, 0)

PrevOverlay(prevMap, id) ==
    IF id \in DOMAIN prevMap THEN prevMap[id] ELSE null

\* now - lastPluckTimeRef.current > PLUCK_COOLDOWN
PluckCooldownBadShort(nowT, last) == nowT - last >= PLUCK_COOLDOWN - 50

PluckCooldownElapsed(nowT, last) == nowT - last > PLUCK_COOLDOWN

\* the body of an accepted pluck: sound, vibration, timestamp
AcceptPluckBadNoStamp(acc, line, tip, nowT) ==
    [acc EXCEPT !.vib[VibIndex(line.index) + 1] = PLUCKED,
                !.events = Append(@, [string |-> line.index, tip |-> tip.id, x |-> tip.lm.x]),
                !.audio = @ + 1]

AcceptPluckBadSlot(acc, line, tip, nowT) ==
    [acc EXCEPT !.vib[line.index + 2] = PLUCKED,
                !.events = Append(@, [string |-> line.index, tip |-> tip.id, x |-> tip.lm.x]),
                !.audio = @ + 1,
                !.last = nowT]

AcceptPluck(acc, line, tip, nowT) ==
    [acc EXCEPT !.vib[VibIndex(line.index) + 1] = PLUCKED,
                !.events = Append(@, [string |-> line.index, tip |-> tip.id, x |-> tip.lm.x]),
                !.audio = @ + 1,
                !.last = nowT]

\* currentStringLines.forEach(line => ...) for one fingertip with a previous position
RECURSIVE PluckLines(_, _, _, _, _, _)
PluckLines(acc, lines, i, tip, prev, nowT) ==
    IF i > Len(lines) THEN acc
    ELSE LET line == lines[i]
             next == IF /\ segmentsIntersect(line.p1, line.p2, prev, tip.pos)
                        /\ PluckCooldownElapsed(nowT, acc.last)
                     THEN AcceptPluck(acc, line, tip, nowT)
                     ELSE acc
         IN  PluckLines(next, lines, i + 1, tip, prev, nowT)

\* landmarksData.forEach(... [8, 12, 16, 20].forEach(...))
RECURSIVE PluckTips(_, _, _, _, _, _)
PluckTips(acc, tips, j, lines, prevMap, nowT) ==
    IF j > Len(tips) THEN acc
    ELSE LET prev == PrevOverlay(prevMap, tips[j].id)
             next == IF prev # null
                     THEN PluckLines(acc, lines, 1, tips[j], prev, nowT)
                     ELSE acc
         IN  PluckTips(next, tips, j + 1, lines, prevMap, nowT)

---------------------------------------------------------------------------
(* The strings canvas: one run of render() *)

NoFrame ==
    [twoHands |-> FALSE, dist2 |-> -1, isSpawning |-> FALSE, isLocking |-> FALSE,
     toggled |-> FALSE, lockedNow |-> FALSE, unlockedNow |-> FALSE,
     currentStringLines |-> <<>>, pluckEvents |-> <<>>, audioRequests |-> 0,
     crossed |-> {}, seeded |-> {}, held |-> 0,
     exitFired |-> FALSE, melodyAdvanced |-> FALSE, palmSince |-> -1, pinchSince |-> -1,
     rested |-> FALSE]

\* Observation only: the frame has fingertips, and each is where the stored
\* previous position puts it
Rested(tips, prevMap) ==
    /\ Len(tips) > 0
    /\ \A j \in 1..Len(tips) :
          tips[j].id \in DOMAIN prevMap /\ prevMap[tips[j].id] = tips[j].pos

\* Observation only: how many consecutive frames, up to HoldFrames, the two index
\* fingertips have been closer than the spawn threshold, in a hold that began with
\* the counter at 0 and the latch clear.
Held(close, cnt, latch) ==
    IF close /\ (frame.held >= 1 \/ (cnt = 0 /\ ~latch))
    THEN Min(frame.held + 1, HoldFrames)
    ELSE 0

\* snap: the snapshot read from latestLandmarksRef; nowT: what Date.now() returns;
\* eager: whether React runs the setIsStringsActive updater inside the call
\* (no update pending on the component) or later, when it re-renders.
StarryRender(snap, nowT, eager) ==
    LET hs == snap.hands
        vib0 == [i \in 1..3 |-> Decay(stringVibrationRef[i])]
        twoHands == snap.some /\ Len(hs) >= 2
        tracked == twoHands /\ 8 \in DOMAIN hs[1] /\ 8 \in DOMAIN hs[2]
        d2 == IF tracked THEN Dist2(hs[1][8], hs[2][8]) ELSE -1
        detected == IF tracked
                    THEN [p1 |-> ToOverlay(hs[1][8]), p2 |-> ToOverlay(hs[2][8])]
                    ELSE null
        \* LOGIC: MASTER SWITCH
        sp == IF tracked
              THEN SpawnLogic(spawnProgressFrameCounter, hasSpawnToggledRef, d2)
              ELSE [cnt |-> WithoutPair(twoHands, spawnProgressFrameCounter),
                    latch |-> hasSpawnToggledRef, toggle |-> FALSE, isSpawning |-> FALSE]
        turnOff == sp.toggle /\ isStringsActive
        locked1 == IF turnOff /\ eager THEN null ELSE lockedStringDataRef
        lk == IF tracked
              THEN LockLogic(isStringsActive, isLocked, lockProgressFrameCounter, d2)
              ELSE [cnt |-> WithoutPair(twoHands, lockProgressFrameCounter),
                    lock |-> FALSE, isLocking |-> FALSE]
        locked2 == IF lk.lock
                   THEN Freeze(currentStringCoordsRef, detected.p1, detected.p2)
                   ELSE locked1
        unlock == tracked /\ UnlockLogic(isLocked, d2)
        locked3 == IF unlock THEN null ELSE locked2
        \* RENDER: STRINGS (If Active)
        ra == IF isStringsActive
              THEN RenderAnchors(locked3, currentStringCoordsRef, detected)
              ELSE [render |-> null, coords |-> currentStringCoordsRef]
        lines == IF isStringsActive THEN StringLines(ra.render) ELSE <<>>
        \* Pluck Logic
        plucking == isStringsActive /\ snap.some /\ Len(lines) > 0
        tips == TipsFrom(hs, 1, 1)
        acc0 == [last |-> lastPluckTimeRef, vib |-> vib0, events |-> <<>>, audio |-> 0]
        acc == IF plucking
               THEN PluckTips(acc0, tips, 1, lines, prevFingerPosRef, nowT)
               ELSE acc0
    IN  [now |-> nowT,
         isStringsActive |-> IF sp.toggle THEN ~isStringsActive ELSE isStringsActive,
         isLocked |-> IF turnOff \/ unlock THEN FALSE
                      ELSE IF lk.lock THEN TRUE ELSE isLocked,
         spawn |-> sp.cnt, latch |-> sp.latch, lock |-> lk.cnt,
         coords |-> ra.coords,
         locked |-> IF turnOff THEN null ELSE locked3,
         vib |-> acc.vib, last |-> acc.last,
         prev |-> IF plucking THEN CurrentFingerPos(tips) ELSE prevFingerPosRef,
         frame |-> [twoHands |-> tracked, dist2 |-> d2, isSpawning |-> sp.isSpawning,
                    isLocking |-> lk.isLocking, toggled |-> sp.toggle,
                    lockedNow |-> lk.lock, unlockedNow |-> unlock,
                    currentStringLines |-> lines, pluckEvents |-> acc.events,
                    audioRequests |-> acc.audio,
                    crossed |-> IF plucking
                                THEN Crossings(tips, lines, prevFingerPosRef, 1)
                                ELSE {},
                    seeded |-> IF plucking
                               THEN {tips[j].id : j \in 1..Len(tips)} \ DOMAIN prevFingerPosRef
                               ELSE {},
                    held |-> Held(tracked /\ DistBelow(d2, SPAWN_DISTANCE_THRESHOLD),
                                  spawnProgressFrameCounter, hasSpawnToggledRef),
                    rested |-> plucking /\ Rested(tips, prevFingerPosRef)]]

\* When the updater runs can be told apart only if there is locked data to discard
UpdaterTimings == IF lockedStringDataRef # null THEN BOOLEAN ELSE {TRUE}

StarryFrame(snap, nowT) ==
    /\ currentView = "starry-night"
    /\ \E eager \in UpdaterTimings : \E r \in {StarryRender(snap, nowT, eager)} :
         /\ now' = r.now
         /\ latestLandmarksRef' = snap
         /\ isStringsActive' = r.isStringsActive
         /\ isLocked' = r.isLocked
         /\ spawnProgressFrameCounter' = r.spawn
         /\ hasSpawnToggledRef' = r.latch
         /\ lockProgressFrameCounter' = r.lock
         /\ currentStringCoordsRef' = r.coords
         /\ lockedStringDataRef' = r.locked
         /\ stringVibrationRef' = r.vib
         /\ lastPluckTimeRef' = r.last
         /\ prevFingerPosRef' = r.prev
         /\ frame' = r.frame
    /\ UNCHANGED <<currentView, isGuitarActive, guitarStringsRef, lastStrumTimeRef>>
    /\ UNCHANGED <<utilVars, gestureVars>>

---------------------------------------------------------------------------
(* The guitar canvas: geometry *)

GUITAR_VIBRATION_DECAY == 88        \* VIBRATION_DECAY = 0.88, in hundredths
SUB == 100                          \* guitar geometry is kept in hundredths of a pixel
COS45 == 7071                       \* cos = sin of GUITAR_ANGLE = PI / 4, in 1 / 10000

GuitarDecay(v) == Max(0, (v * GUITAR_VIBRATION_DECAY) \div 100)

\* p.y * sin, p.y * cos of transformPoint (p.x is 0 for both string ends)
Rot(v) == (v * COS45) \div 10000

\* drawGuitar(ctx, guitarX, guitarY, guitarScale): the string bounds it returns
GuitarBounds ==
    LET scale == (Min(overlayW, overlayH) * SUB * 34) \div 100
        centerX == (overlayW * SUB * 50) \div 100
        centerY == (overlayH * SUB * 60) \div 100
        bodyH == (scale * 11) \div 10
        neckW == (scale * 18) \div 100
        neckH == (scale * 8) \div 10
        headH == (scale * 25) \div 100
        startLocalY == 0 - ((bodyH * 35) \div 100) - neckH + (headH \div 10)
        endLocalY == (bodyH * 25) \div 100
        stringSpread == (neckW * 4) \div 10
    IN  [startX |-> centerX - Rot(startLocalY), startY |-> centerY + Rot(startLocalY),
         endX |-> centerX - Rot(endLocalY), endY |-> centerY + Rot(endLocalY),
         perpX |-> 0 - Rot(stringSpread), perpY |-> Rot(stringSpread)]

\* drawGuitarStrings(ctx, bounds): the six hit-test segments, index 0..5
GuitarStringLines ==
    LET b == GuitarBounds IN
    [n \in 1..6 |->
        LET i == n - 1
            offsetX == (b.perpX * (2 * i - 5)) \div 5   \* perpX * (i - 2.5) / 2.5
            offsetY == (b.perpY * (2 * i - 5)) \div 5
        IN  [p1 |-> Pt(b.startX + offsetX, b.startY + offsetY),
             p2 |-> Pt(b.endX + offsetX, b.endY + offsetY), index |-> i]]

---------------------------------------------------------------------------
(* The guitar canvas: summoning and strum detection *)

\* Hand detection for summoning (the spawn logic of the strings canvas, copied)
Summoning(cnt, latch, d2) ==
    IF DistBelow(d2, SPAWN_DISTANCE_THRESHOLD)
    THEN IF ~latch
         THEN IF cnt + 1 >= SPAWN_TIME_REQUIRED
              THEN [cnt |-> 0, latch |-> TRUE, toggle |-> TRUE, isSpawning |-> TRUE]
              ELSE [cnt |-> cnt + 1, latch |-> FALSE, toggle |-> FALSE, isSpawning |-> TRUE]
         ELSE [cnt |-> cnt, latch |-> latch, toggle |-> FALSE, isSpawning |-> FALSE]
    ELSE [cnt |-> Max(0, cnt - 5),
          latch |-> IF DistAboveRearm(d2, SPAWN_DISTANCE_THRESHOLD) THEN FALSE ELSE latch,
          toggle |-> FALSE, isSpawning |-> FALSE]

\* now - lastStrumTimeRef.current > STRUM_COOLDOWN
StrumCooldownElapsed(nowT, last) == nowT - last > STRUM_COOLDOWN

\* Strum detected: vibrate strings, sound, timestamp
AcceptStrum(acc, line, tip, nowT) ==
    [acc EXCEPT !.vib = [n \in 1..6 |-> 15 - Abs((n - 1) - line.index) * 2],
                !.events = Append(@, [string |-> line.index, tip |-> tip.id, x |-> tip.lm.x]),
                !.audio = @ + 1,
                !.last = nowT]

\* for (const line of stringLines) { if (segmentsIntersect(...)) { ...; break; } }
RECURSIVE StrumLines(_, _, _, _, _, _)
StrumLines(acc, lines, i, tip, prev, nowT) ==
    IF i > Len(lines) THEN acc
    ELSE IF segmentsIntersect(lines[i].p1, lines[i].p2, Scale(prev, SUB), Scale(tip.pos, SUB))
         THEN AcceptStrum(acc, lines[i], tip, nowT)
         ELSE StrumLines(acc, lines, i + 1, tip, prev, nowT)

RECURSIVE StrumTips(_, _, _, _, _, _)
StrumTips(acc, tips, j, lines, prevMap, nowT) ==
    IF j > Len(tips) THEN acc
    ELSE LET prev == PrevOverlay(prevMap, tips[j].id)
             next == IF prev # null /\ StrumCooldownElapsed(nowT, acc.last)
                     THEN StrumLines(acc, lines, 1, tips[j], prev, nowT)
                     ELSE acc
         IN  StrumTips(next, tips, j + 1, lines, prevMap, nowT)

---------------------------------------------------------------------------
(* The guitar canvas: open-palm exit and pinch mode switch *)

PINCH_HOLD_MS == 2000
NoTime == -1                        \* null in a useRef<number | null>
MELODY_COUNT == 3                   \* MELODIES.length

\* Math.sqrt, rounded down: the root of n between lo and hi
RECURSIVE SqrtBetween(_, _, _)
SqrtBetween(n, lo, hi) ==
    IF lo >= hi THEN lo
    ELSE IF ((lo + hi + 1) \div 2) * ((lo + hi + 1) \div 2) <= n
         THEN SqrtBetween(n, (lo + hi + 1) \div 2, hi)
         ELSE SqrtBetween(n, lo, ((lo + hi + 1) \div 2) - 1)

\* Math.hypot(a.x - b.x, a.y - b.y) of two landmarks, in thousandths
MathHypot(a, b) == SqrtBetween(Dist2(a, b), 0, 2 * NORM)

FINGERTIP_INDICES == {4, 8, 12, 16, 20}

\* tips.reduce((sum, tip) => sum + Math.hypot(tip.x - wrist.x, tip.y - wrist.y), 0)
RECURSIVE SumTipDist(_, _)
SumTipDist(hand, tips) ==
    IF tips = {} THEN 0
    ELSE LET idx == CHOOSE i \in tips : TRUE
         IN  MathHypot(hand[idx], hand[0]) + SumTipDist(hand, tips \ {idx})

\* isOpenPalm without the test that all five fingertips are there
isOpenPalmBadNoTipCheck(hand) ==
    IF ~({0, 5, 17} \subseteq DOMAIN hand) THEN FALSE
    ELSE IF MathHypot(hand[5], hand[17]) = 0 THEN FALSE
    ELSE IF ~({8, 20} \subseteq DOMAIN hand) THEN FALSE
    ELSE \E palmWidth \in {MathHypot(hand[5], hand[17])} :
         \E tips \in {FINGERTIP_INDICES \cap DOMAIN hand} :
            /\ SumTipDist(hand, tips) * 100 > 215 * palmWidth * Cardinality(tips)
            /\ MathHypot(hand[8], hand[20]) * 10 > 11 * palmWidth
            /\ \A idx \in tips : MathHypot(hand[idx], hand[0]) * 10 > 19 * palmWidth

isOpenPalm(hand) ==
    IF ~({0, 5, 17} \subseteq DOMAIN hand) THEN FALSE
    ELSE IF MathHypot(hand[5], hand[17]) = 0 THEN FALSE
    ELSE IF ~(FINGERTIP_INDICES \subseteq DOMAIN hand) THEN FALSE
    ELSE \E palmWidth \in {MathHypot(hand[5], hand[17])} :
         \E tipDist \in {[idx \in FINGERTIP_INDICES |-> MathHypot(hand[idx], hand[0])]} :
            \* ratio > 2.15, with avgTipDist the sum of the five over 5
            /\ (tipDist[4] + tipDist[8] + tipDist[12] + tipDist[16] + tipDist[20]) * 20
                  > 215 * palmWidth
            \* fingerSpread > 1.1
            /\ MathHypot(hand[8], hand[20]) * 10 > 11 * palmWidth
            \* minRatio > 1.9
            /\ \A idx \in FINGERTIP_INDICES : tipDist[idx] * 10 > 19 * palmWidth

\* LandingHarp: 'open', 'fist' or 'unknown'; the fingertips that are there
\* are averaged, and with none of them the average is NaN, which compares
\* false with both thresholds
getHandState(landmarks) ==
    IF ~({0, 5, 17} \subseteq DOMAIN landmarks) THEN "unknown"
    ELSE IF MathHypot(landmarks[5], landmarks[17]) = 0 THEN "unknown"
    ELSE LET palmWidth == MathHypot(landmarks[5], landmarks[17])
             tips == FINGERTIP_INDICES \cap DOMAIN landmarks
         IN IF tips = {} THEN "unknown"
            ELSE IF SumTipDist(landmarks, tips) * 10 > 24 * palmWidth * Cardinality(tips)
            THEN "open"
            ELSE IF SumTipDist(landmarks, tips) * 10 < 16 * palmWidth * Cardinality(tips)
            THEN "fist"
            ELSE "unknown"

\* one call of a classifier: the function, its argument and what it returned
NoHandCall == [fn |-> "", hand |-> <<>>, called |-> FALSE, result |-> FALSE]

\* landmarksData && landmarksData.length >= 1
HasHand(snap) == snap.some /\ Len(snap.hands) >= 1

FirstHandOpen(snap) == HasHand(snap) /\ isOpenPalm(snap.hands[1])

\* if (landmarksData && landmarksData.length >= 1 && onExit) { ... }
OpenPalmExit(snap, nowT) ==
    IF ~(HasHand(snap) /\ onExit)
    THEN [start |-> openHoldStartRef, triggered |-> openTriggeredRef, exit |-> FALSE]
    ELSE IF isOpenPalm(snap.hands[1])
    THEN IF openHoldStartRef = NoTime
         THEN [start |-> nowT, triggered |-> openTriggeredRef, exit |-> FALSE]
         ELSE IF nowT - openHoldStartRef > 2000 /\ ~openTriggeredRef
         THEN [start |-> openHoldStartRef, triggered |-> TRUE, exit |-> TRUE]
         ELSE [start |-> openHoldStartRef, triggered |-> openTriggeredRef, exit |-> FALSE]
    ELSE [start |-> NoTime, triggered |-> FALSE, exit |-> FALSE]

\* hand[0] && hand[4] && hand[8] && hand[9]
PinchLandmarks(hand) == {0, 4, 8, 9} \subseteq DOMAIN hand

\* pinchDist < 0.55, with pinchDist = dist2D(thumbTip, indexTip) / palmSize and
\* palmSize = Math.max(0.001, dist2D(wrist, middleMcp))
isPinched(hand) ==
    MathHypot(hand[4], hand[8]) * 100 < 55 * Max(1, MathHypot(hand[0], hand[9]))

FirstHandPinched(snap) ==
    IF HasHand(snap) /\ PinchLandmarks(snap.hands[1])
    THEN isPinched(snap.hands[1])
    ELSE FALSE

\* pinchStartTimeRef, pinchHasToggledRef and pinchProgressRef cleared
PinchReleased ==
    [start |-> NoTime, toggled |-> FALSE, progress |-> 0,
     melody |-> melodyIndex, flash |-> toggleFlashUntilRef, advanced |-> FALSE]

\* a held pinch: since start, having toggled or not
PinchHeld(start, hasToggled, nowT) ==
    [start |-> start,
     toggled |-> hasToggled \/ nowT - start >= 2000,
     progress |-> Max(0, Min(NORM, ((nowT - start) * NORM) \div PINCH_HOLD_MS)),
     melody |-> IF ~hasToggled /\ nowT - start >= 2000
                THEN (melodyIndex + 1) % MELODY_COUNT
                ELSE melodyIndex,
     flash |-> IF ~hasToggled /\ nowT - start >= 2000
               THEN nowT + 650
               ELSE toggleFlashUntilRef,
     advanced |-> ~hasToggled /\ nowT - start >= 2000]

\* a mode switch that forgets that it has toggled
PinchSwitchBadNoLatch(snap, nowT) ==
    IF isGuitarActive /\ FirstHandPinched(snap)
    THEN PinchHeld(IF pinchStartTimeRef = NoTime THEN nowT ELSE pinchStartTimeRef,
                   FALSE, nowT)
    ELSE PinchReleased

\* Mode switch gesture detection: pinch (thumb+index) hold >= 2s
PinchSwitch(snap, nowT) ==
    IF isGuitarActive /\ FirstHandPinched(snap)
    THEN PinchHeld(IF pinchStartTimeRef = NoTime THEN nowT ELSE pinchStartTimeRef,
                   pinchHasToggledRef, nowT)
    ELSE PinchReleased

\* Observation only: the time of the first frame of the run of consecutive
\* frames, up to this one, in which the gesture was seen (-1: not seen now)
Since(seen, since, nowT) ==
    IF seen THEN (IF since = -1 THEN nowT ELSE since) ELSE -1

GesturesInit ==
    /\ handCall = NoHandCall
    /\ onExit = FALSE
    /\ DrumsInit
    /\ openHoldStartRef = NoTime
    /\ openTriggeredRef = FALSE
    /\ melodyIndex = 0
    /\ pinchStartTimeRef = NoTime
    /\ pinchHasToggledRef = FALSE
    /\ pinchProgressRef = 0
    /\ toggleFlashUntilRef = 0

TreeRender(snap, nowT) ==
    LET hs == snap.hands
        vib0 == [n \in 1..6 |-> GuitarDecay(guitarStringsRef[n])]
        twoHands == snap.some /\ Len(hs) >= 2
        tracked == twoHands /\ 8 \in DOMAIN hs[1] /\ 8 \in DOMAIN hs[2]
        d2 == IF tracked THEN Dist2(hs[1][8], hs[2][8]) ELSE -1
        sp == IF tracked
              THEN Summoning(spawnProgressFrameCounter, hasSpawnToggledRef, d2)
              ELSE [cnt |-> WithoutPair(twoHands, spawnProgressFrameCounter),
                    latch |-> hasSpawnToggledRef, toggle |-> FALSE, isSpawning |-> FALSE]
        lines == IF isGuitarActive THEN GuitarStringLines ELSE <<>>
        strumming == isGuitarActive /\ snap.some
        tips == TipsFrom(hs, 1, 1)
        acc0 == [last |-> lastStrumTimeRef, vib |-> vib0, events |-> <<>>, audio |-> 0]
        acc == IF strumming
               THEN StrumTips(acc0, tips, 1, lines, prevFingerPosRef, nowT)
               ELSE acc0
        open == OpenPalmExit(snap, nowT)
        pinch == PinchSwitch(snap, nowT)
    IN  [now |-> nowT,
         isGuitarActive |-> IF sp.toggle THEN ~isGuitarActive ELSE isGuitarActive,
         open |-> open, pinch |-> pinch,
         spawn |-> sp.cnt, latch |-> sp.latch,
         vib |-> acc.vib, last |-> acc.last,
         prev |-> IF strumming THEN CurrentFingerPos(tips) ELSE prevFingerPosRef,
         frame |-> [twoHands |-> tracked, dist2 |-> d2, isSpawning |-> sp.isSpawning,
                    isLocking |-> FALSE, toggled |-> sp.toggle,
                    lockedNow |-> FALSE, unlockedNow |-> FALSE,
                    currentStringLines |-> lines, pluckEvents |-> acc.events,
                    audioRequests |-> acc.audio,
                    crossed |-> IF strumming
                                THEN Crossings(tips, lines, prevFingerPosRef, SUB)
                                ELSE {},
                    seeded |-> IF strumming
                               THEN {tips[j].id : j \in 1..Len(tips)} \ DOMAIN prevFingerPosRef
                               ELSE {},
                    held |-> Held(tracked /\ DistBelow(d2, SPAWN_DISTANCE_THRESHOLD),
                                  spawnProgressFrameCounter, hasSpawnToggledRef),
                    exitFired |-> open.exit,
                    melodyAdvanced |-> pinch.advanced,
                    palmSince |-> Since(FirstHandOpen(snap), frame.palmSince, nowT),
                    pinchSince |-> Since(isGuitarActive /\ FirstHandPinched(snap),
                                         frame.pinchSince, nowT),
                    rested |-> strumming /\ Rested(tips, prevFingerPosRef)]]

TreeFrame(snap, nowT) ==
    /\ currentView = "tree-of-life"
    /\ \E r \in {TreeRender(snap, nowT)} :
         /\ now' = r.now
         /\ latestLandmarksRef' = snap
         /\ isGuitarActive' = r.isGuitarActive
         /\ spawnProgressFrameCounter' = r.spawn
         /\ hasSpawnToggledRef' = r.latch
         /\ guitarStringsRef' = r.vib
         /\ lastStrumTimeRef' = r.last
         /\ prevFingerPosRef' = r.prev
         /\ openHoldStartRef' = r.open.start
         /\ openTriggeredRef' = r.open.triggered
         /\ melodyIndex' = r.pinch.melody
         /\ pinchStartTimeRef' = r.pinch.start
         /\ pinchHasToggledRef' = r.pinch.toggled
         /\ pinchProgressRef' = r.pinch.progress
         /\ toggleFlashUntilRef' = r.pinch.flash
         /\ frame' = r.frame
    /\ UNCHANGED <<currentView, isStringsActive, isLocked, lockProgressFrameCounter,
                   currentStringCoordsRef, lockedStringDataRef, stringVibrationRef,
                   lastPluckTimeRef, onExit, handCall, drumVars>>
    /\ UNCHANGED utilVars

---------------------------------------------------------------------------
(* The note manager of the rhythm canvas.  Times are in ms, progress is in *)
(* thousandths (1000 = the judgment line).  The song has a lead time of    *)
(* 1000 ms, so that every progress value lies on the grid of thousandths.  *)

PERFECT == 80                       \* NOTE_JUDGE_WINDOWS.PERFECT = 0.08
GOOD == 150                         \* NOTE_JUDGE_WINDOWS.GOOD = 0.15
NOTE_MISS_THRESHOLD == 1300         \* 1.3
JUDGE_LINE == 1000                  \* progress 1

\* a song: two notes 100 ms apart on the middle string and one on the upper string
Song ==
    [leadTime |-> 1000,
     notes |-> << [time |-> 1000, string |-> 0], [time |-> 1100, string |-> 0],
                  [time |-> 1200, string |-> 1] >>]

\* appearTime = songNote.time - leadTime
AppearTime(songNote) == songNote.time - Song.leadTime

\* (currentTime - appearTime) / leadTime
Progress(currentTime, songNote) ==
    ((currentTime - AppearTime(songNote)) * JUDGE_LINE) \div Song.leadTime

ActiveNote(id, index) ==
    [id |-> id, songNote |-> index, progress |-> 0, hit |-> FALSE, missed |-> FALSE]

\* update, step 1 without the test of the appear time
RECURSIVE ActivateBadEarly(_, _, _, _)
ActivateBadEarly(notes, index, idCounter, currentTime) ==
    IF index < Len(Song.notes)
    THEN ActivateBadEarly(Append(notes, ActiveNote(idCounter, index + 1)),
                          index + 1, idCounter + 1, currentTime)
    ELSE [notes |-> notes, nextNoteIndex |-> index, noteIdCounter |-> idCounter]

\* update, step 1: the while loop that activates the notes that are due
RECURSIVE Activate(_, _, _, _)
Activate(notes, index, idCounter, currentTime) ==
    IF index < Len(Song.notes)
       /\ currentTime >= AppearTime(Song.notes[index + 1])
    THEN Activate(Append(notes, ActiveNote(idCounter, index + 1)),
                  index + 1, idCounter + 1, currentTime)
    ELSE [notes |-> notes, nextNoteIndex |-> index, noteIdCounter |-> idCounter]

\* update, step 2 with the miss declared only at the removal threshold
AdvanceBadLateMiss(note, currentTime) ==
    IF note.hit \/ note.missed
    THEN note
    ELSE [note EXCEPT !.progress = Progress(currentTime, Song.notes[note.songNote]),
                      !.missed = Progress(currentTime, Song.notes[note.songNote])
                                     > NOTE_MISS_THRESHOLD]

\* update, step 2: progress and the missed flag of one note
Advance(note, currentTime) ==
    IF note.hit \/ note.missed
    THEN note
    ELSE [note EXCEPT !.progress = Progress(currentTime, Song.notes[note.songNote]),
                      !.missed = Progress(currentTime, Song.notes[note.songNote])
                                     > JUDGE_LINE + GOOD]

\* update, step 3: the filter
Remains(note) == note.progress < NOTE_MISS_THRESHOLD

\* NoteManager.update(currentTime) with a song loaded
Update(currentTime) ==
    LET due == Activate(activeNotes, nextNoteIndex, noteIdCounter, currentTime)
        advanced == [i \in 1..Len(due.notes) |-> Advance(due.notes[i], currentTime)]
    IN  [activeNotes |-> SelectSeq(advanced, Remains),
         nextNoteIndex |-> due.nextNoteIndex,
         noteIdCounter |-> due.noteIdCounter,
         activated |-> {due.notes[i].songNote : i \in Len(activeNotes) + 1 .. Len(due.notes)}]

\* Math.abs(note.progress - 1) <= window, as binary64 evaluates it.  Off the edge
\* of a window the thousandths decide.  On the edge the doubles decide: the
\* subtraction is exact, the doubles nearest to 1.15 and 0.92 give deviations of
\* 0.1499999999999999 and 0.07999999999999996, within the windows 0.15 and 0.08,
\* and those nearest to 0.85 and 1.08 give 0.15000000000000002 and
\* 0.08000000000000007, outside them.
DeviationWithin(progress, window) ==
    \/ Abs(progress - JUDGE_LINE) < window
    \/ /\ Abs(progress - JUDGE_LINE) = window
       /\ progress \in {JUDGE_LINE + GOOD, JUDGE_LINE - PERFECT}

\* tryHitNote: the classification of the chosen note
Classify(progress) ==
    IF DeviationWithin(progress, PERFECT) THEN "perfect"
    ELSE IF DeviationWithin(progress, GOOD) THEN "good"
    ELSE "miss"

\* a filter that takes notes already hit
CandidatesBadRehit(notes, stringIndex) ==
    {i \in 1..Len(notes) :
        /\ Song.notes[notes[i].songNote].string = stringIndex
        /\ ~notes[i].missed
        /\ notes[i].progress >= JUDGE_LINE - GOOD
        /\ notes[i].progress <= JUDGE_LINE + GOOD}

\* tryHitNote: the filter (1 - GOOD and 1 + GOOD evaluate to the doubles nearest
\* to 0.85 and 1.15, so the thousandths decide)
Candidates(notes, stringIndex) ==
    {i \in 1..Len(notes) :
        /\ Song.notes[notes[i].songNote].string = stringIndex
        /\ ~notes[i].hit
        /\ ~notes[i].missed
        /\ notes[i].progress >= JUDGE_LINE - GOOD
        /\ notes[i].progress <= JUDGE_LINE + GOOD}

\* a reduce that keeps the first candidate
ClosestBadFirst(notes, candidates) ==
    {i \in candidates : \A j \in candidates : i <= j}

\* tryHitNote: the reduce.  Where two candidates are equally far from 1 in
\* thousandths the rounding of the doubles decides between them: either may come
\* out.
Closest(notes, candidates) ==
    {i \in candidates :
        \A j \in candidates :
            Abs(notes[i].progress - JUDGE_LINE) <= Abs(notes[j].progress - JUDGE_LINE)}

\* one amplitude for every judgment
AmplitudeBadFlat(judgeResult) == PLUCKED

\* the amplitude the pluck gives its string
Amplitude(judgeResult) ==
    IF judgeResult = "perfect" THEN 25 ELSE IF judgeResult = "miss" THEN 12 ELSE PLUCKED

\* a call: the method, its argument, the id of the note it returned (-1: none),
\* the judge result, the amplitude given to the string, the song notes activated
NoteCall(op, arg, note, result, vibration, activated) ==
    [op |-> op, arg |-> arg, note |-> note, result |-> result,
     vibration |-> vibration, activated |-> activated]

NoNoteCall == NoteCall("none", 0, -1, "none", 0, {})

NoHistory ==
    [activations |-> [i \in 1..Len(Song.notes) |-> 0],
     hits |-> [id \in 0..(Len(Song.notes) - 1) |-> 0]]

NotesInit ==
    /\ musicPlayer = [isPlaying |-> FALSE, currentTime |-> 0]
    /\ activeNotes = <<>>
    /\ nextNoteIndex = 0
    /\ noteIdCounter = 0
    /\ noteCall = NoNoteCall
    /\ noteHistory = NoHistory

---------------------------------------------------------------------------
(* Inputs *)

\* Hands of the runs carry fingertips only, so the palm and pinch gestures of the
\* guitar canvas see no gesture in them.
\* a hand of which the tracker delivered the index fingertip only
IndexHand(x, y) == (8 :> Pt(x, y))
\* a hand with index and middle fingertips
TwoTipHand(x8, y8, x12, y12) == (8 :> Pt(x8, y8)) @@ (12 :> Pt(x12, y12))

AnchorY == 625      \* 0.625: overlay row 125
\* two hands on one row, the first at the left edge, the second dx away
Pair(dx) == Snapshot(<<IndexHand(0, AnchorY), IndexHand(dx, AnchorY)>>)

GestureSnapshots ==
    { NoSnapshot, Snapshot(<<>>), Snapshot(<<IndexHand(0, AnchorY)>>),
      Pair(50), Pair(80), Pair(120), Pair(200), Pair(250), Pair(550), Pair(1000) }

FrameDt == 100       \* a frame period of the gesture runs, in ms

Init ==
    /\ currentView \in {"starry-night", "tree-of-life"}
    /\ now = MountTime
    /\ latestLandmarksRef = NoSnapshot
    /\ isStringsActive = FALSE
    /\ isLocked = FALSE
    /\ isGuitarActive = FALSE
    /\ spawnProgressFrameCounter = 0
    /\ lockProgressFrameCounter = 0
    /\ hasSpawnToggledRef = FALSE
    /\ currentStringCoordsRef = null
    /\ lockedStringDataRef = null
    /\ stringVibrationRef = <<0, 0, 0>>
    /\ guitarStringsRef = <<0, 0, 0, 0, 0, 0>>
    /\ lastPluckTimeRef = 0
    /\ lastStrumTimeRef = 0
    /\ prevFingerPosRef = <<>>
    /\ frame = NoFrame
    /\ geo = NoCall
    /\ NotesInit
    /\ GesturesInit

\* Date.now() one frame period later; beyond MaxTime the runs are followed with
\* the clock reading MaxTime
Tick == IF now + FrameDt <= MaxTime THEN now + FrameDt ELSE MaxTime

Next ==
    \/ \E snap \in GestureSnapshots : StarryFrame(snap, Tick)
    \/ \E snap \in GestureSnapshots : TreeFrame(snap, Tick)

Spec == Init /\ [][Next]_vars


---------------------------------------------------------------------------
(* Plucking and strumming runs.  They start in the state a canvas is in    *)
(* right after its first toggle to Active (60 frames of Pair(50)), at an   *)
(* arbitrary clock reading, and follow hands held wide apart whose middle  *)
(* fingertips sweep across the strings.                                    *)

PluckMaxTime == 2300                \* the clock of the plucking runs is followed up to here
StrumMaxTime == 5000                \* the clock of the strumming runs is followed up to here

\* frame periods, in ms: around the 150 ms and the 1100 ms cooldown
PluckDts == {50, 100}
StrumDts == {550, 600}

Rows == {AnchorY, 500}              \* rows of the index fingertips: overlay 125, 100
\* middle fingertips of the first and the second hand: overlay rows 200, 140, 50
Sweeps == {<<1000, 1000>>, <<250, 250>>, <<700, 1000>>, <<250, 1000>>}

PluckSnapshots ==
    { NoSnapshot, Snapshot(<<TwoTipHand(0, AnchorY, 500, 250)>>) }
    \cup { Snapshot(<<TwoTipHand(0, row, 500, sw[1]), TwoTipHand(1000, row, 600, sw[2])>>) :
             <<row, sw>> \in Rows \X Sweeps }

\* the hands stay on the row where the strings were first stretched
SameRow(snap) ==
    IF currentStringCoordsRef = null \/ Len(snap.hands) < 2
    THEN TRUE
    ELSE ToOverlay(snap.hands[1][8]).y = currentStringCoordsRef.p1.y

ToggleFrame ==
    [NoFrame EXCEPT !.twoHands = TRUE, !.dist2 = 50 * 50, !.isSpawning = TRUE,
                    !.toggled = TRUE, !.held = SPAWN_TIME_REQUIRED]

InitPluck ==
    /\ currentView \in {"starry-night", "tree-of-life"}
    /\ now = MountTime
    /\ latestLandmarksRef = Pair(50)
    /\ isStringsActive = (currentView = "starry-night")
    /\ isLocked = FALSE
    /\ isGuitarActive = (currentView = "tree-of-life")
    /\ spawnProgressFrameCounter = 0
    /\ lockProgressFrameCounter = 0
    /\ hasSpawnToggledRef = TRUE
    /\ currentStringCoordsRef = null
    /\ lockedStringDataRef = null
    /\ stringVibrationRef = <<0, 0, 0>>
    /\ guitarStringsRef = <<0, 0, 0, 0, 0, 0>>
    /\ lastPluckTimeRef = 0
    /\ lastStrumTimeRef = 0
    /\ prevFingerPosRef = <<>>
    /\ frame = ToggleFrame
    /\ geo = NoCall
    /\ NotesInit
    /\ GesturesInit

NextPluck ==
    \/ \E snap \in PluckSnapshots, dt \in PluckDts :
          now + dt <= PluckMaxTime /\ SameRow(snap) /\ StarryFrame(snap, now + dt)
    \/ \E snap \in PluckSnapshots, dt \in StrumDts :
          now + dt <= StrumMaxTime /\ TreeFrame(snap, now + dt)

SpecPluck == InitPluck /\ [][NextPluck]_vars

---------------------------------------------------------------------------
(* Properties of the interaction state machine *)

\* the Active flag of the mounted experience
Active == IF currentView = "tree-of-life" THEN isGuitarActive ELSE isStringsActive

\* the frame just run saw two hands closer / farther than thr (on index fingertips)
SawBelow(thr) == frame.twoHands /\ DistBelow(frame.dist2, thr)
SawAbove(thr) == frame.twoHands /\ DistAbove(frame.dist2, thr)

\* C1: the spawn hold counter is in 0..59 at the end of every frame; the frame in
\* which it reaches 60 (close hands, latch clear, 59 frames already counted)
\* toggles Active exactly once and leaves the counter at 0; no other frame toggles.
C1_SpawnCounterToggles ==
    /\ spawnProgressFrameCounter \in 0..(SPAWN_TIME_REQUIRED - 1)
    /\ [][ LET reaches == /\ SawBelow(SPAWN_DISTANCE_THRESHOLD)'
                          /\ ~hasSpawnToggledRef
                          /\ spawnProgressFrameCounter + 1 = SPAWN_TIME_REQUIRED
           IN  /\ spawnProgressFrameCounter' \in 0..(SPAWN_TIME_REQUIRED - 1)
               /\ reaches => Active' = ~Active /\ spawnProgressFrameCounter' = 0
               /\ ~reaches => Active' = Active
               /\ frame'.toggled <=> reaches ]_vars

C1_Witness ==
    /\ frame.toggled /\ isStringsActive /\ spawnProgressFrameCounter = 0
    /\ SawBelow(SPAWN_DISTANCE_THRESHOLD)

\* C2: a toggle sets the latch, and while the latch is set no frame toggles; the
\* latch stays set until a frame sees two hands farther apart than 1.5 times the
\* spawn threshold (0.12).  A hold below the threshold that starts from rest
\* toggles in its 60th frame and in no other of its first 65 frames.
C2_ToggleLatch ==
    [][ /\ Active' # Active => ~hasSpawnToggledRef /\ hasSpawnToggledRef'
        /\ hasSpawnToggledRef /\ ~(frame'.twoHands /\ DistAboveRearm(frame'.dist2, SPAWN_DISTANCE_THRESHOLD))
              => hasSpawnToggledRef' /\ Active' = Active
        /\ frame'.held >= 1 => (Active' # Active <=> frame'.held = SPAWN_TIME_REQUIRED)
      ]_vars

C2_Witness == frame.held = HoldFrames /\ hasSpawnToggledRef /\ Active

\* C3: the lock flag is raised only by a frame that runs while Active and not
\* Locked, sees two hands farther apart than 0.55 and takes the lock hold counter
\* from 29 to 30; the endpoints it freezes are the smoothed endpoints of the
\* frame before, or the raw detected ones when there are none.
C3_LockTransition ==
    [][ (~isLocked /\ isLocked') \/ frame'.lockedNow =>
          /\ isStringsActive /\ ~isLocked /\ isLocked'
          /\ SawAbove(LOCK_DISTANCE_THRESHOLD)'
          /\ lockProgressFrameCounter + 1 = LOCK_TIME_REQUIRED
          /\ lockProgressFrameCounter' = 0
          /\ lockedStringDataRef' =
               IF currentStringCoordsRef # null
               THEN currentStringCoordsRef
               ELSE [p1 |-> ToOverlay(latestLandmarksRef'.hands[1][8]),
                     p2 |-> ToOverlay(latestLandmarksRef'.hands[2][8])] ]_vars

\* the frozen endpoints are the smoothed ones, which lag behind the hands
C3_Witness ==
    /\ frame.lockedNow /\ isLocked /\ lockedStringDataRef # null
    /\ lockedStringDataRef.p2 # ToOverlay(latestLandmarksRef.hands[2][8])

\* C4: a frame that runs while Locked and sees two hands closer than 0.25 leaves
\* the canvas Active and not Locked, with no frozen endpoints; any other frame
\* that runs while Locked leaves it Locked with the same frozen endpoints.
C4_UnlockTransition ==
    [][ isLocked =>
          IF SawBelow(UNLOCK_DISTANCE_THRESHOLD)'
          THEN ~isLocked' /\ isStringsActive' /\ lockedStringDataRef' = null
          ELSE isLocked' /\ isStringsActive' /\ lockedStringDataRef' = lockedStringDataRef
      ]_vars

C4_Witness ==
    /\ frame.unlockedNow /\ ~isLocked /\ isStringsActive /\ lockedStringDataRef = null

\* C5: Locked implies Active; frozen endpoints exist exactly while Locked; a
\* frame that toggles to Dormant leaves the lock flag and the frozen endpoints clear.
C5_LockInvariants ==
    /\ isLocked => isStringsActive
    /\ lockedStringDataRef # null <=> isLocked
    /\ frame.toggled /\ ~isStringsActive => ~isLocked /\ lockedStringDataRef = null

C5_Witness ==
    /\ currentView = "starry-night" /\ frame.toggled /\ ~isStringsActive
    /\ ~isLocked /\ lockedStringDataRef = null /\ currentStringCoordsRef # null

\* C6: in every state that is Locked the string segments of the last frame are
\* the ones computed from the frozen endpoints, and a frame that starts and ends
\* Locked changes neither the frozen endpoints nor the segments.
C6_LockedStringsFrozen ==
    /\ [](isLocked => /\ Len(frame.currentStringLines) = 3
                      /\ frame.currentStringLines = StringLines(lockedStringDataRef))
    /\ [][ isLocked /\ isLocked' =>
             /\ lockedStringDataRef' = lockedStringDataRef
             /\ frame'.currentStringLines = frame.currentStringLines ]_vars

\* a Locked frame whose hands are elsewhere than the frozen endpoints
C6_Witness ==
    /\ isLocked /\ ~frame.lockedNow /\ frame.twoHands
    /\ ToOverlay(latestLandmarksRef.hands[2][8]).x + 50 < lockedStringDataRef.p2.x
    /\ Len(frame.currentStringLines) = 3


---------------------------------------------------------------------------
(* Properties of the hit detector *)

\* the cooldown and the cooldown timestamp of the mounted experience
Cooldown == IF currentView = "tree-of-life" THEN STRUM_COOLDOWN ELSE PLUCK_COOLDOWN
LastHit == IF currentView = "tree-of-life" THEN lastStrumTimeRef ELSE lastPluckTimeRef

\* the fingertips of the snapshot the last frame consumed
FrameTips == TipsFrom(latestLandmarksRef.hands, 1, 1)

\* C7: a frame accepts a hit only when its clock reading is more than the
\* cooldown after the timestamp of the last accepted hit, and then the timestamp
\* becomes that reading; a frame that accepts none leaves the timestamp alone;
\* a frame in which some fingertip's motion intersects a string accepts a hit
\* exactly when the cooldown has elapsed (100 ms after a hit: no; 200 ms: yes).
C7_GlobalCooldown ==
    [][ LET hit == frame'.pluckEvents # <<>>
        IN  /\ hit => now' - LastHit > Cooldown /\ LastHit' = now'
            /\ ~hit => LastHit' = LastHit
            /\ frame'.crossed # {} => (hit <=> now' - LastHit > Cooldown) ]_vars

\* an intersection 100 ms after an accepted pluck: ignored, timestamp unmoved
C7_Witness ==
    /\ currentView = "starry-night"
    /\ frame.crossed # {} /\ frame.pluckEvents = <<>>
    /\ lastPluckTimeRef > 0 /\ now - lastPluckTimeRef = 100

\* C8: a frame emits at most one PluckEvent, hence at most one per fingertip,
\* however many strings a fingertip's motion intersects and however many
\* fingertips cross strings in the frame.
C8_OneHitPerFrame ==
    /\ Len(frame.pluckEvents) <= 1
    /\ frame.audioRequests = Len(frame.pluckEvents)
    /\ \A id \in {c[1] : c \in frame.crossed} :
          Cardinality({i \in 1..Len(frame.pluckEvents) : frame.pluckEvents[i].tip = id}) <= 1

\* two fingertips cross in one frame, one of them over all three strings
C8_Witness ==
    /\ currentView = "starry-night"
    /\ Len(frame.pluckEvents) = 1
    /\ Cardinality({c[1] : c \in frame.crossed}) >= 2
    /\ \E id \in {c[1] : c \in frame.crossed} :
          Cardinality({c \in frame.crossed : c[1] = id}) = 3

\* The scenario of C9 in the step just taken: the strings canvas is Active, one of
\* its strings is (0,125)-(200,125), fingertip id moves from the stored position
\* (100,200) to (100,50), and the cooldown has elapsed.
C9_Scenario(id, i) ==
    /\ currentView = "starry-night" /\ isStringsActive
    /\ i \in 1..Len(frame'.currentStringLines)
    /\ frame'.currentStringLines[i].p1 = Pt(0, 125)
    /\ frame'.currentStringLines[i].p2 = Pt(200, 125)
    /\ id \in DOMAIN prevFingerPosRef /\ prevFingerPosRef[id] = Pt(100, 200)
    /\ id \in DOMAIN prevFingerPosRef' /\ prevFingerPosRef'[id] = Pt(100, 50)
    /\ now' - lastPluckTimeRef > PLUCK_COOLDOWN

\* the first string, in list order, that fingertip id crossed in the frame fr
FirstCrossed(fr, id) ==
    LET lines == fr.currentStringLines
        k == CHOOSE i \in 1..Len(lines) :
                /\ <<id, lines[i].index>> \in fr.crossed
                /\ \A j \in 1..(i - 1) : <<id, lines[j].index>> \notin fr.crossed
    IN  lines[k].index

\* C9 as stated: the scenario yields exactly one PluckEvent, attributed to the
\* string (0,125)-(200,125), one audio request, and that string's vibration slot
\* (slot 2 - index, counting from 1) at the plucked constant.
C9_AsStated ==
    [][ \A id \in {<<h, t>> : h \in 0..1, t \in {8, 12, 16, 20}}, i \in 1..3 :
          C9_Scenario(id, i) =>
             /\ Len(frame'.pluckEvents) = 1
             /\ frame'.pluckEvents[1].string = frame'.currentStringLines[i].index
             /\ frame'.audioRequests = 1
             /\ stringVibrationRef'[2 - frame'.currentStringLines[i].index] = PLUCKED ]_vars

\* C9, amended: the scenario yields exactly one PluckEvent and one audio request;
\* the event is attributed to the first string in list order (1, 0, -1) that the
\* emitting fingertip's motion crosses, and it is that string's slot that is set to
\* the plucked constant.  It is the string (0,125)-(200,125) when that string is
\* the first one listed (index 1) and no fingertip visited earlier crosses.
C9_FirstCrossedString ==
    [][ \A id \in {<<h, t>> : h \in 0..1, t \in {8, 12, 16, 20}}, i \in 1..3 :
          C9_Scenario(id, i) =>
             /\ Len(frame'.pluckEvents) = 1
             /\ frame'.audioRequests = 1
             /\ <<frame'.pluckEvents[1].tip, frame'.pluckEvents[1].string>> \in frame'.crossed
             /\ frame'.pluckEvents[1].string = FirstCrossed(frame', frame'.pluckEvents[1].tip)
             /\ stringVibrationRef'[2 - frame'.pluckEvents[1].string] = PLUCKED
             /\ (i = 1 /\ frame'.pluckEvents[1].tip = id) =>
                   frame'.pluckEvents[1].string = frame'.currentStringLines[i].index ]_vars

\* the string (0,125)-(200,125) is the middle one, a fingertip now at (100,50) has
\* crossed all three, and the one event names the string listed first
C9_Witness ==
    /\ currentView = "starry-night" /\ isStringsActive
    /\ Len(frame.currentStringLines) = 3
    /\ frame.currentStringLines[2].p1 = Pt(0, 125)
    /\ frame.currentStringLines[2].p2 = Pt(200, 125)
    /\ <<0, 12>> \in DOMAIN prevFingerPosRef /\ prevFingerPosRef[<<0, 12>>] = Pt(100, 50)
    /\ {<<<<0, 12>>, 1>>, <<<<0, 12>>, 0>>, <<<<0, 12>>, -1>>} \subseteq frame.crossed
    /\ Len(frame.pluckEvents) = 1 /\ frame.pluckEvents[1].string = 1
    /\ stringVibrationRef[1] = PLUCKED /\ stringVibrationRef[2] # PLUCKED

\* C10: a fingertip that has no stored previous position when a frame starts emits
\* no PluckEvent in that frame; a frame that has strings to test stores the
\* fingertip's current position for it, and no frame stores any other position.
C10_NewFingertipOnlySeeds ==
    [][ \A j \in 1..Len(FrameTips') :
          LET tip == FrameTips'[j] IN
          tip.id \notin DOMAIN prevFingerPosRef =>
             /\ \A e \in 1..Len(frame'.pluckEvents) : frame'.pluckEvents[e].tip # tip.id
             /\ Len(frame'.currentStringLines) > 0 => tip.id \in DOMAIN prevFingerPosRef'
             /\ tip.id \in frame'.seeded <=> tip.id \in DOMAIN prevFingerPosRef'
             /\ tip.id \in DOMAIN prevFingerPosRef' => prevFingerPosRef'[tip.id] = tip.pos ]_vars

\* a frame that seeds new fingertips while another fingertip strums
C10_Witness ==
    /\ frame.seeded # {} /\ frame.pluckEvents # <<>>
    /\ frame.seeded \subseteq DOMAIN prevFingerPosRef


\* C11, as stated: at the end of every frame the stored previous-position map
\* holds exactly the fingertips tracked in that frame, each at that frame's
\* position (and nothing when the frame tracked none).
C11_PrevMapIsThisFrame ==
    /\ DOMAIN prevFingerPosRef = {FrameTips[j].id : j \in 1..Len(FrameTips)}
    /\ \A j \in 1..Len(FrameTips) : prevFingerPosRef[FrameTips[j].id] = FrameTips[j].pos


---------------------------------------------------------------------------
(* Calls of segmentsIntersect.  The runs of SpecGeo start with four        *)
(* endpoints on a square integer grid, or with one of three literal        *)
(* configurations; the function is called on them, and called again with   *)
(* the endpoints of either segment exchanged.                              *)

GridMax == 2                        \* endpoints have coordinates 0..GridMax

Grid == {Pt(x, y) : x \in 0..GridMax, y \in 0..GridMax}

CrossingCase == <<Pt(0, 0), Pt(10, 0), Pt(5, -5), Pt(5, 5)>>
ShortCase == <<Pt(0, 0), Pt(10, 0), Pt(5, 1), Pt(5, 5)>>
IdenticalCase == <<Pt(0, 0), Pt(10, 0), Pt(0, 0), Pt(10, 0)>>

GeoInputs == (Grid \X Grid \X Grid \X Grid) \cup {CrossingCase, ShortCase, IdenticalCase}

canvasVars == <<currentView, now, latestLandmarksRef, isStringsActive, isLocked,
                isGuitarActive, spawnProgressFrameCounter, lockProgressFrameCounter,
                hasSpawnToggledRef, currentStringCoordsRef, lockedStringDataRef,
                stringVibrationRef, guitarStringsRef, lastPluckTimeRef,
                lastStrumTimeRef, prevFingerPosRef, frame, gestureVars>>

\* the result of segmentsIntersect on the four endpoints a
CallOn(a) == [args |-> a, called |-> TRUE, result |-> segmentsIntersect(a[1], a[2], a[3], a[4])]

InitGeo ==
    /\ currentView = "landing"
    /\ now = MountTime
    /\ latestLandmarksRef = NoSnapshot
    /\ isStringsActive = FALSE
    /\ isLocked = FALSE
    /\ isGuitarActive = FALSE
    /\ spawnProgressFrameCounter = 0
    /\ lockProgressFrameCounter = 0
    /\ hasSpawnToggledRef = FALSE
    /\ currentStringCoordsRef = null
    /\ lockedStringDataRef = null
    /\ stringVibrationRef = <<0, 0, 0>>
    /\ guitarStringsRef = <<0, 0, 0, 0, 0, 0>>
    /\ lastPluckTimeRef = 0
    /\ lastStrumTimeRef = 0
    /\ prevFingerPosRef = <<>>
    /\ frame = NoFrame
    /\ \E a \in GeoInputs : geo = [args |-> a, called |-> FALSE, result |-> FALSE]
    /\ NotesInit
    /\ GesturesInit

Call ==
    /\ ~geo.called
    /\ geo' = CallOn(geo.args)
    /\ UNCHANGED <<canvasVars, noteVars>>

\* the same call with the endpoints of the first segment exchanged
CallSwappedFirst ==
    /\ geo.called
    /\ geo' = CallOn(<<geo.args[2], geo.args[1], geo.args[3], geo.args[4]>>)
    /\ UNCHANGED <<canvasVars, noteVars>>

\* the same call with the endpoints of the second segment exchanged
CallSwappedSecond ==
    /\ geo.called
    /\ geo' = CallOn(<<geo.args[1], geo.args[2], geo.args[4], geo.args[3]>>)
    /\ UNCHANGED <<canvasVars, noteVars>>

NextGeo == Call \/ CallSwappedFirst \/ CallSwappedSecond

SpecGeo == InitGeo /\ [][NextGeo]_vars

\* twice the signed area of the triangle a, b, c
Orient(a, b, c) == (b.x - a.x) * (c.y - a.y) - (b.y - a.y) * (c.x - a.x)

\* the four endpoints lie on one line
Collinear(a) ==
    \A i, j, k \in 1..4 : Orient(a[i], a[j], a[k]) = 0

\* C12: the crossing literal case gives true, the short and the identical
\* literal cases give false, and every pair of collinear segments gives false.
C12_LiteralAndCollinearCases ==
    geo.called =>
        /\ geo.args = CrossingCase => geo.result = TRUE
        /\ geo.args = ShortCase => geo.result = FALSE
        /\ geo.args = IdenticalCase => geo.result = FALSE
        /\ Collinear(geo.args) => geo.result = FALSE

C12_Witness == geo.called /\ geo.args = CrossingCase /\ geo.result = TRUE

\* C13, as stated: calling again with the two endpoints of either segment
\* exchanged gives the same result.
C13_EndpointOrderIrrelevant ==
    [][geo.called /\ geo'.called => geo'.result = geo.result]_vars

\* the segments are proper and exactly one endpoint of the first coincides with
\* an endpoint of the second
SharesOneEndpoint(a) ==
    /\ a[1] # a[2]
    /\ a[3] # a[4]
    /\ Cardinality({<<i, j>> \in {1, 2} \X {3, 4} : a[i] = a[j]}) = 1

\* C14, as stated: two segments that share exactly one endpoint (and, being
\* proper segments joined at an endpoint, cross nowhere else) do not intersect.
C14_SharedEndpointIsNoIntersection ==
    geo.called /\ SharesOneEndpoint(geo.args) => geo.result = FALSE

---------------------------------------------------------------------------
(* Runs of the note manager.  The rhythm canvas loads the song on mount;   *)
(* its render effect starts the music when the strings are locked and      *)
(* stops it and resets the notes otherwise; while the music plays every    *)
(* frame passes the playback clock to update() and every accepted pluck    *)
(* calls tryHitNote().  The clock is read at the instants at which a note  *)
(* of the song stands at one of the progress values of Offsets.            *)

Offsets == {0, 850, 1030, 1080, 1120, 1150, 1160, 1300}

NoteInstants == {AppearTime(Song.notes[i]) + o : i \in 1..Len(Song.notes), o \in Offsets}

StringIndices == {-1, 0, 1}

InitNotes ==
    /\ currentView = "starry-night"
    /\ now = MountTime
    /\ latestLandmarksRef = NoSnapshot
    /\ isStringsActive = FALSE
    /\ isLocked = FALSE
    /\ isGuitarActive = FALSE
    /\ spawnProgressFrameCounter = 0
    /\ lockProgressFrameCounter = 0
    /\ hasSpawnToggledRef = FALSE
    /\ currentStringCoordsRef = null
    /\ lockedStringDataRef = null
    /\ stringVibrationRef = <<0, 0, 0>>
    /\ guitarStringsRef = <<0, 0, 0, 0, 0, 0>>
    /\ lastPluckTimeRef = 0
    /\ lastStrumTimeRef = 0
    /\ prevFingerPosRef = <<>>
    /\ frame = NoFrame
    /\ geo = NoCall
    /\ NotesInit
    /\ GesturesInit

\* the render effect with the strings locked: musicPlayer.play()
PlayMusic ==
    /\ ~musicPlayer.isPlaying
    /\ musicPlayer' = [musicPlayer EXCEPT !.isPlaying = TRUE]
    /\ noteCall' = NoteCall("play", 0, -1, "none", 0, {})
    /\ UNCHANGED <<activeNotes, nextNoteIndex, noteIdCounter, noteHistory>>
    /\ UNCHANGED <<canvasVars, geo>>

\* the render effect with the strings not locked: musicPlayer.stop() and
\* noteManager.reset()
StopAndReset ==
    /\ musicPlayer' = [isPlaying |-> FALSE, currentTime |-> 0]
    /\ activeNotes' = <<>>
    /\ nextNoteIndex' = 0
    /\ noteIdCounter' = 0
    /\ noteCall' = NoteCall("reset", 0, -1, "none", 0, {})
    /\ noteHistory' = NoHistory
    /\ UNCHANGED <<canvasVars, geo>>

\* a frame while the music plays: noteManager.update(musicPlayer.getCurrentTime())
UpdateNotes(currentTime) ==
    /\ musicPlayer.isPlaying
    /\ currentTime >= musicPlayer.currentTime
    /\ \E u \in {Update(currentTime)} :
         /\ activeNotes' = u.activeNotes
         /\ nextNoteIndex' = u.nextNoteIndex
         /\ noteIdCounter' = u.noteIdCounter
         /\ noteCall' = NoteCall("update", 0, -1, "none", 0, u.activated)
         /\ noteHistory' =
               [noteHistory EXCEPT !.activations =
                   [i \in 1..Len(Song.notes) |->
                       IF i \in u.activated THEN @[i] + 1 ELSE @[i]]]
    /\ musicPlayer' = [musicPlayer EXCEPT !.currentTime = currentTime]
    /\ UNCHANGED <<canvasVars, geo>>

\* the judging of an accepted pluck on the string with index stringIndex
JudgePluck(stringIndex) ==
    /\ IF ~musicPlayer.isPlaying
       THEN /\ noteCall' = NoteCall("pluck", stringIndex, -1, "good", Amplitude("good"), {})
            /\ UNCHANGED <<activeNotes, noteHistory>>
       ELSE IF Candidates(activeNotes, stringIndex) = {}
       THEN /\ noteCall' = NoteCall("tryHitNote", stringIndex, -1, "miss", Amplitude("miss"), {})
            /\ UNCHANGED <<activeNotes, noteHistory>>
       ELSE \E i \in Closest(activeNotes, Candidates(activeNotes, stringIndex)) :
              \E result \in {Classify(activeNotes[i].progress)} :
                /\ activeNotes' = [activeNotes EXCEPT ![i].hit = TRUE]
                /\ noteCall' = NoteCall("tryHitNote", stringIndex, activeNotes[i].id,
                                        result, Amplitude(result), {})
                /\ noteHistory' =
                      [noteHistory EXCEPT !.hits[activeNotes[i].id] = @ + 1]
    /\ UNCHANGED <<musicPlayer, nextNoteIndex, noteIdCounter>>
    /\ UNCHANGED <<canvasVars, geo>>

NextNotes ==
    \/ PlayMusic
    \/ StopAndReset
    \/ \E currentTime \in NoteInstants : UpdateNotes(currentTime)
    \/ \E stringIndex \in StringIndices : JudgePluck(stringIndex)

SpecNotes == InitNotes /\ [][NextNotes]_vars

---------------------------------------------------------------------------
(* Properties of the note manager *)

\* where the playback clock, as last passed to update, puts a note: the ms since its
\* appear time are its progress in thousandths, the lead time being 1000 ms
OnClock(note, clock) == clock.currentTime - AppearTime(Song.notes[note.songNote])

\* the last call was a tryHitNote that returned a note
Judged == noteCall.op = "tryHitNote" /\ noteCall.note # -1

\* the progress of the active note with the given id
ProgressOf(id) ==
    LET i == CHOOSE i \in 1..Len(activeNotes) : activeNotes[i].id = id
    IN  activeNotes[i].progress

\* C15, as stated: the note returned by tryHitNote is 'perfect' iff its
\* deviation from 1 is within 0.08 and 'good' iff it is beyond 0.08 and within
\* 0.15 (1.03 is perfect, 1.12 is good); it is never 'miss'.
C15_SelectedNoteNeverMiss ==
    Judged =>
        /\ noteCall.result = "perfect" <=> DeviationWithin(ProgressOf(noteCall.note), PERFECT)
        /\ noteCall.result = "good" <=>
              /\ ~DeviationWithin(ProgressOf(noteCall.note), PERFECT)
              /\ DeviationWithin(ProgressOf(noteCall.note), GOOD)
        /\ ProgressOf(noteCall.note) = 1030 => noteCall.result = "perfect"
        /\ ProgressOf(noteCall.note) = 1120 => noteCall.result = "good"
        /\ noteCall.result # "miss"

\* the notes a hit on the string may take: on that string, neither hit nor
\* missed, progress in [0.85, 1.15]
Eligible(notes, stringIndex) ==
    {i \in 1..Len(notes) :
        /\ Song.notes[notes[i].songNote].string = stringIndex
        /\ ~notes[i].hit /\ ~notes[i].missed
        /\ 850 <= notes[i].progress /\ notes[i].progress <= 1150}

\* C16: a tryHitNote on string S marks hit one eligible note of S that is
\* closest to 1, and only that note; with no eligible note it returns nothing,
\* the pluck gets amplitude 12 and no note changes.
C16_ClosestEligibleNoteIsHit ==
    [][noteCall'.op = "tryHitNote" =>
         IF Eligible(activeNotes, noteCall'.arg) = {}
         THEN /\ noteCall'.note = -1
              /\ noteCall'.result = "miss"
              /\ noteCall'.vibration = 12
              /\ activeNotes' = activeNotes
         ELSE \E i \in Eligible(activeNotes, noteCall'.arg) :
                /\ \A j \in Eligible(activeNotes, noteCall'.arg) :
                      Abs(activeNotes[i].progress - 1000) <= Abs(activeNotes[j].progress - 1000)
                /\ noteCall'.note = activeNotes[i].id
                /\ activeNotes' = [activeNotes EXCEPT ![i].hit = TRUE]]_vars

\* a note was hit while another eligible note of the same string stood farther
\* from the judgment line
C16_Witness ==
    /\ Judged
    /\ \E j \in 1..Len(activeNotes) :
         /\ activeNotes[j].id # noteCall.note
         /\ Song.notes[activeNotes[j].songNote].string = noteCall.arg
         /\ ~activeNotes[j].hit /\ ~activeNotes[j].missed
         /\ 850 <= activeNotes[j].progress /\ activeNotes[j].progress <= 1150
         /\ Abs(activeNotes[j].progress - 1000) > Abs(ProgressOf(noteCall.note) - 1000)

\* C17: a note is hit at most once; a note already hit or missed is not taken
\* by tryHitNote and is left as it is by update; no note is both hit and missed.
C17_JudgedNotesAreInert ==
    /\ [](\A id \in DOMAIN noteHistory.hits : noteHistory.hits[id] <= 1)
    /\ [](\A i \in 1..Len(activeNotes) : ~(activeNotes[i].hit /\ activeNotes[i].missed))
    /\ [][/\ noteCall'.op = "tryHitNote" /\ noteCall'.note # -1 =>
               \A i \in 1..Len(activeNotes) :
                   activeNotes[i].id = noteCall'.note =>
                       ~activeNotes[i].hit /\ ~activeNotes[i].missed
          /\ noteCall'.op = "update" =>
               \A i \in 1..Len(activeNotes) :
                   activeNotes[i].hit \/ activeNotes[i].missed =>
                       \A j \in 1..Len(activeNotes') :
                           activeNotes'[j].id = activeNotes[i].id =>
                               activeNotes'[j] = activeNotes[i]]_vars

\* after an update, a note hit earlier stands where it was hit, behind the clock
C17_Witness ==
    /\ noteCall.op = "update"
    /\ \E i \in 1..Len(activeNotes) :
         /\ activeNotes[i].hit
         /\ noteHistory.hits[activeNotes[i].id] = 1
         /\ activeNotes[i].progress < OnClock(activeNotes[i], musicPlayer)

\* C18: an update at which a note that was not hit stands beyond 1.15 leaves
\* it marked missed (or has dropped it as long gone); a missed note stays
\* missed and is never hit.
C18_LateNoteIsMissed ==
    [][/\ noteCall'.op = "update" =>
            \A j \in 1..Len(activeNotes') :
                /\ ~activeNotes'[j].hit
                /\ OnClock(activeNotes'[j], musicPlayer') > 1150
                => activeNotes'[j].missed
       /\ noteCall'.op \in {"update", "tryHitNote", "pluck"} =>
            \A i \in 1..Len(activeNotes) :
                activeNotes[i].missed =>
                    \A j \in 1..Len(activeNotes') :
                        activeNotes'[j].id = activeNotes[i].id =>
                            activeNotes'[j].missed /\ ~activeNotes'[j].hit]_vars

\* an update found a note at 1.16 and marked it missed
C18_Witness ==
    /\ noteCall.op = "update"
    /\ \E i \in 1..Len(activeNotes) :
         /\ activeNotes[i].progress = 1160
         /\ activeNotes[i].missed
         /\ ~activeNotes[i].hit

\* C19, as stated: the active set holds only notes in flight; once the clock
\* passed to update has taken a note beyond 1.3, hit or not, the note is gone.
C19_OnlyNotesInFlight ==
    noteCall.op = "update" =>
        \A i \in 1..Len(activeNotes) :
            OnClock(activeNotes[i], musicPlayer) < 1300

\* C20: after update(t) the song notes with time - leadTime <= t, and no
\* others, have been activated, each once since the last reset; active notes
\* neither hit nor missed have progress (t - (time - leadTime)) / leadTime; all
\* active notes have progress in [0, 1.3).
C20_ActivationAndProgress ==
    /\ \A n \in 1..Len(Song.notes) :
         /\ noteHistory.activations[n] <= 1
         /\ noteHistory.activations[n] = 1 =>
               AppearTime(Song.notes[n]) <= musicPlayer.currentTime
    /\ \A i \in 1..Len(activeNotes) :
         0 <= activeNotes[i].progress /\ activeNotes[i].progress < 1300
    /\ noteCall.op = "update" =>
         /\ \A n \in 1..Len(Song.notes) :
              AppearTime(Song.notes[n]) <= musicPlayer.currentTime =>
                  noteHistory.activations[n] = 1
         /\ \A i \in 1..Len(activeNotes) :
              ~activeNotes[i].hit /\ ~activeNotes[i].missed =>
                  activeNotes[i].progress = OnClock(activeNotes[i], musicPlayer)

\* after an update all song notes have been activated, one has been dropped and
\* one is still on its way
C20_Witness ==
    /\ noteCall.op = "update"
    /\ nextNoteIndex = Len(Song.notes)
    /\ Len(activeNotes) < Len(Song.notes)
    /\ \E i \in 1..Len(activeNotes) :
         ~activeNotes[i].hit /\ ~activeNotes[i].missed /\ activeNotes[i].progress > 0

---------------------------------------------------------------------------
(* Properties of the vibrations and of the hold counters *)

\* C21: in a frame without accepted hit every amplitude of the mounted canvas
\* becomes max(0, decay * v), which is at most v (decay 0.85 for the strings,
\* 0.88 for the guitar); no amplitude is ever negative.
C21_VibrationDecays ==
    /\ [](/\ \A i \in 1..3 : stringVibrationRef[i] >= 0
          /\ \A n \in 1..6 : guitarStringsRef[n] >= 0)
    /\ [][frame'.pluckEvents = <<>> =>
            /\ \A i \in 1..3 :
                 /\ stringVibrationRef'[i] <= stringVibrationRef[i]
                 /\ currentView = "starry-night" =>
                       stringVibrationRef'[i] = Max(0, (stringVibrationRef[i] * 85) \div 100)
            /\ \A n \in 1..6 :
                 /\ guitarStringsRef'[n] <= guitarStringsRef[n]
                 /\ currentView = "tree-of-life" =>
                       guitarStringsRef'[n] = Max(0, (guitarStringsRef[n] * 88) \div 100)]_vars

\* a string plucked in the frame before has decayed once, with no hit in this frame
C21_Witness ==
    /\ frame.pluckEvents = <<>>
    /\ \E i \in 1..3 : stringVibrationRef[i] = (PLUCKED * 85) \div 100

---------------------------------------------------------------------------
(* Gesture runs of the guitar canvas.  One hand, whose fingertips do not   *)
(* move, is tracked or lost from frame to frame; its palm is narrow (the   *)
(* hand classifies as open) or wide (it does not), its thumb tip is far    *)
(* from the index tip or on it (a pinch); the tracker may also deliver it  *)
(* without the wrist or without the base of the middle finger.  The runs   *)
(* start at mount (Dormant) or right after the first toggle (Active), with *)
(* or without an onExit prop; App itself mounts the canvas without one.    *)

GestureMaxTime == 6500  \* the clock of the gesture runs is followed up to here
GestureDts == {500}                 \* frame periods, in ms: four of them are 2000 ms

\* landmark 5 and 17 (the bases of index and pinky) 100 or 200 thousandths apart
PalmBases == {<<450, 550>>, <<400, 600>>}
\* landmark 4 (the thumb tip) away from the index tip or next to it
ThumbTips == {Pt(300, 700), Pt(400, 620)}

GestureHand(bases, thumb) ==
    (0 :> Pt(500, 900)) @@ (9 :> Pt(500, 700))
    @@ (5 :> Pt(bases[1], 700)) @@ (17 :> Pt(bases[2], 700))
    @@ (4 :> thumb)
    @@ (8 :> Pt(420, 600)) @@ (12 :> Pt(500, 580)) @@ (16 :> Pt(560, 600))
    @@ (20 :> Pt(640, 650))

\* the hand without one of its landmarks
Without(hand, idx) == [i \in DOMAIN hand \ {idx} |-> hand[i]]

GestureSnapshotsOneHand ==
    { NoSnapshot, Snapshot(<<>>) }
    \cup { Snapshot(<<GestureHand(bases, thumb)>>) : bases \in PalmBases, thumb \in ThumbTips }
    \cup { Snapshot(<<Without(GestureHand(<<450, 550>>, Pt(400, 620)), idx)>>) : idx \in {0, 9} }

InitGesture ==
    /\ currentView = "tree-of-life"
    /\ now = MountTime
    /\ isGuitarActive \in BOOLEAN
    /\ latestLandmarksRef = (IF isGuitarActive THEN Pair(50) ELSE NoSnapshot)
    /\ hasSpawnToggledRef = isGuitarActive
    /\ frame = (IF isGuitarActive THEN ToggleFrame ELSE NoFrame)
    /\ isStringsActive = FALSE
    /\ isLocked = FALSE
    /\ spawnProgressFrameCounter = 0
    /\ lockProgressFrameCounter = 0
    /\ currentStringCoordsRef = null
    /\ lockedStringDataRef = null
    /\ stringVibrationRef = <<0, 0, 0>>
    /\ guitarStringsRef = <<0, 0, 0, 0, 0, 0>>
    /\ lastPluckTimeRef = 0
    /\ lastStrumTimeRef = 0
    /\ prevFingerPosRef = <<>>
    /\ geo = NoCall
    /\ NotesInit
    /\ handCall = NoHandCall
    /\ onExit \in BOOLEAN
    /\ DrumsInit
    /\ openHoldStartRef = NoTime
    /\ openTriggeredRef = FALSE
    /\ melodyIndex \in 0..(MELODY_COUNT - 1)    \* the preset left by earlier pinches
    /\ pinchStartTimeRef = NoTime
    /\ pinchHasToggledRef = FALSE
    /\ pinchProgressRef = 0
    /\ toggleFlashUntilRef = 0

NextGesture ==
    \E snap \in GestureSnapshotsOneHand, dt \in GestureDts :
        now + dt <= GestureMaxTime /\ TreeFrame(snap, now + dt)

SpecGesture == InitGesture /\ [][NextGesture]_vars

---------------------------------------------------------------------------
(* Properties of the pinch and open-palm gestures *)

\* the gesture whose run began at since has lasted at least ms at the clock nowT
Lasted(since, nowT, ms) == since # -1 /\ nowT - since >= ms

\* C22: while Active, the preset advances to the next one (cyclically) and the
\* flash is armed in exactly the first frame at which the pinch on the first
\* hand has lasted 2000 ms, and in no other frame; when the pinch is not seen
\* (released, no hand, Dormant) the preset stays and the progress is 0.
C22_PinchCyclesPresetOnce ==
    [][/\ frame'.melodyAdvanced <=>
             /\ Lasted(frame'.pinchSince, now', 2000)
             /\ ~Lasted(frame.pinchSince, now, 2000)
       /\ IF frame'.melodyAdvanced
          THEN /\ melodyIndex' = (melodyIndex + 1) % 3
               /\ toggleFlashUntilRef' = now' + 650
          ELSE /\ melodyIndex' = melodyIndex
               /\ toggleFlashUntilRef' = toggleFlashUntilRef
       /\ frame'.pinchSince = -1 => pinchProgressRef' = 0]_vars

\* the frame in which a pinch held for 2000 ms advanced the last preset to
\* the first one
C22_Witness ==
    /\ frame.melodyAdvanced
    /\ melodyIndex = 0
    /\ Lasted(frame.pinchSince, now, PINCH_HOLD_MS)

\* C23, as stated: with an exit callback given, it is called in exactly the
\* first frame at which the first hand has been open from frame to frame for
\* 2000 ms, and in no other frame.
C23_ExitAfterOpenPalmHold ==
    [][onExit =>
          (frame'.exitFired <=>
              /\ Lasted(frame'.palmSince, now', 2000)
              /\ ~Lasted(frame.palmSince, now, 2000))]_vars

\* C29, as stated: a frame without hand clears the open-palm hold, and the exit
\* callback is called only when the first hand has been open in every frame of
\* the last 2000 ms.
C29_TrackingGapResetsExitHold ==
    [][/\ ~HasHand(latestLandmarksRef') => openHoldStartRef' = NoTime
       /\ frame'.exitFired => Lasted(frame'.palmSince, now', 2000)]_vars

----------------------------------------------------------------------------
(* The hand classifiers on hands with missing landmarks: isOpenPalm and the
   landing page's getHandState are called on a hand, and the guitar canvas
   runs its frames, pinch detection included, on the same hands *)

ClassifyMaxTime == 3000             \* two frames of the guitar canvas

OpenHand == GestureHand(<<450, 550>>, Pt(300, 700))
PinchedHand == GestureHand(<<450, 550>>, Pt(400, 620))

\* a closed hand: every fingertip next to the palm
FistHand == [OpenHand EXCEPT ![4] = Pt(460, 800), ![8] = Pt(480, 780), ![12] = Pt(500, 780),
                             ![16] = Pt(520, 780), ![20] = Pt(540, 800)]

\* index base and pinky base on one point: palm width 0
NoWidthHand == [OpenHand EXCEPT ![17] = OpenHand[5]]

ClassifyHands ==
    {OpenHand, PinchedHand, FistHand, NoWidthHand}
        \cup {Without(OpenHand, idx) : idx \in {0, 5, 17, 9} \cup FINGERTIP_INDICES}
        \cup {Without(PinchedHand, idx) : idx \in {0, 4, 8, 9}}
        \cup {[idx \in {0, 5, 17} |-> OpenHand[idx]]}

InitClassify ==
    /\ InitGesture
    /\ isGuitarActive
    /\ onExit
    /\ melodyIndex = 0

CallIsOpenPalm(hand) ==
    /\ handCall' = [fn |-> "isOpenPalm", hand |-> hand, called |-> TRUE,
                    result |-> isOpenPalm(hand)]
    /\ UNCHANGED <<currentView, now, latestLandmarksRef, isStringsActive, isLocked,
                   isGuitarActive, spawnProgressFrameCounter, lockProgressFrameCounter,
                   hasSpawnToggledRef, currentStringCoordsRef, lockedStringDataRef,
                   stringVibrationRef, guitarStringsRef, lastPluckTimeRef,
                   lastStrumTimeRef, prevFingerPosRef, frame, drumVars, onExit, openHoldStartRef,
                   openTriggeredRef, melodyIndex, pinchStartTimeRef, pinchHasToggledRef,
                   pinchProgressRef, toggleFlashUntilRef, utilVars>>

CallGetHandState(landmarks) ==
    /\ handCall' = [fn |-> "getHandState", hand |-> landmarks, called |-> TRUE,
                    result |-> getHandState(landmarks)]
    /\ UNCHANGED <<currentView, now, latestLandmarksRef, isStringsActive, isLocked,
                   isGuitarActive, spawnProgressFrameCounter, lockProgressFrameCounter,
                   hasSpawnToggledRef, currentStringCoordsRef, lockedStringDataRef,
                   stringVibrationRef, guitarStringsRef, lastPluckTimeRef,
                   lastStrumTimeRef, prevFingerPosRef, frame, drumVars, onExit, openHoldStartRef,
                   openTriggeredRef, melodyIndex, pinchStartTimeRef, pinchHasToggledRef,
                   pinchProgressRef, toggleFlashUntilRef, utilVars>>

ClassifyFrame(hand) ==
    \E dt \in GestureDts :
        /\ now + dt <= ClassifyMaxTime
        /\ TreeFrame(Snapshot(<<hand>>), now + dt)

NextClassify ==
    \E hand \in ClassifyHands :
        \/ CallIsOpenPalm(hand)
        \/ CallGetHandState(hand)
        \/ ClassifyFrame(hand)

SpecClassify == InitClassify /\ [][NextClassify]_vars

\* index base and pinky base are there and on the same point
PalmWidthZero(hand) ==
    /\ {5, 17} \subseteq DOMAIN hand
    /\ hand[5].x = hand[17].x
    /\ hand[5].y = hand[17].y

\* C26: isOpenPalm answers false for a hand without the wrist, the index base,
\* the pinky base or one of the five fingertips, or with palm width 0;
\* getHandState answers 'unknown' for a hand without the wrist, the index base
\* or the pinky base, or with palm width 0; and a frame of the Active guitar
\* whose first hand lacks landmark 0, 4, 8 or 9 ends with the pinch start
\* cleared, the latch cleared and the progress at 0, without a preset change.
\* (Every call on every hand of ClassifyHands has a value: none of them reads
\* a coordinate of a landmark that is not there.)
C26_ClassifiersGuardMissingLandmarks ==
    /\ [](handCall.called =>
            /\ (/\ handCall.fn = "isOpenPalm"
                /\ \/ ~(({0, 5, 17} \cup FINGERTIP_INDICES) \subseteq DOMAIN handCall.hand)
                   \/ PalmWidthZero(handCall.hand))
               => handCall.result = FALSE
            /\ (/\ handCall.fn = "getHandState"
                /\ \/ ~({0, 5, 17} \subseteq DOMAIN handCall.hand)
                   \/ PalmWidthZero(handCall.hand))
               => handCall.result = "unknown")
    /\ [][(/\ now' # now
           /\ isGuitarActive
           /\ HasHand(latestLandmarksRef')
           /\ ~({0, 4, 8, 9} \subseteq DOMAIN latestLandmarksRef'.hands[1]))
          => /\ pinchStartTimeRef' = NoTime
             /\ pinchHasToggledRef' = FALSE
             /\ pinchProgressRef' = 0
             /\ melodyIndex' = melodyIndex
             /\ ~frame'.melodyAdvanced]_vars

\* isOpenPalm was called on an open hand without its middle fingertip, and the
\* last frame cleared the pinch state on a hand without its thumb tip
C26_Witness ==
    /\ handCall.called
    /\ handCall.fn = "isOpenPalm"
    /\ handCall.hand = Without(OpenHand, 12)
    /\ handCall.result = FALSE
    /\ HasHand(latestLandmarksRef)
    /\ latestLandmarksRef.hands[1] = Without(PinchedHand, 4)
    /\ pinchStartTimeRef = NoTime


----------------------------------------------------------------------------
(* Hold counters of the two-hand gestures *)

\* landmarksData && landmarksData.length >= 2
PairTracked(snap) == snap.some /\ Len(snap.hands) >= 2

\* C24: a frame with fewer than two hands ends with the spawn counter and the
\* lock counter at 0, draws no spawn or lock progress, and changes neither the
\* Active/Dormant state of the canvas nor the lock.
C24_NoPairResetsHoldCounters ==
    [][~PairTracked(latestLandmarksRef')
       => /\ spawnProgressFrameCounter' = 0
          /\ lockProgressFrameCounter' = 0
          /\ ~frame'.isSpawning
          /\ ~frame'.isLocking
          /\ isStringsActive' = isStringsActive
          /\ isGuitarActive' = isGuitarActive
          /\ isLocked' = isLocked]_vars

\* the Active strings canvas has run a frame on a single hand
C24_Witness ==
    /\ HasHand(latestLandmarksRef)
    /\ ~PairTracked(latestLandmarksRef)
    /\ now > MountTime
    /\ isStringsActive
    /\ spawnProgressFrameCounter = 0
    /\ lockProgressFrameCounter = 0

\* C27, as stated: in a frame with two hands closer than 0.08 and the latch
\* clear the spawn counter ends one higher than it began, and in a frame with
\* two hands at 0.08 or more it ends 5 lower, not below 0.
C27_SpawnCounterGrowsAndDecays ==
    [][frame'.twoHands
       => /\ (DistBelow(frame'.dist2, SPAWN_DISTANCE_THRESHOLD) /\ ~hasSpawnToggledRef)
             => spawnProgressFrameCounter' = spawnProgressFrameCounter + 1
          /\ ~DistBelow(frame'.dist2, SPAWN_DISTANCE_THRESHOLD)
             => spawnProgressFrameCounter' = Max(0, spawnProgressFrameCounter - 5)]_vars

\* C27, amended: the same, except that the frame in which the counter reaches
\* SPAWN_TIME_REQUIRED toggles the mode and ends with the counter at 0.
C27_SpawnCounterGrowsUntilToggle ==
    [][frame'.twoHands
       => /\ (DistBelow(frame'.dist2, SPAWN_DISTANCE_THRESHOLD) /\ ~hasSpawnToggledRef)
             => /\ spawnProgressFrameCounter + 1 < SPAWN_TIME_REQUIRED
                   => spawnProgressFrameCounter' = spawnProgressFrameCounter + 1
                /\ spawnProgressFrameCounter + 1 >= SPAWN_TIME_REQUIRED
                   => spawnProgressFrameCounter' = 0
          /\ ~DistBelow(frame'.dist2, SPAWN_DISTANCE_THRESHOLD)
             => spawnProgressFrameCounter' = Max(0, spawnProgressFrameCounter - 5)]_vars

\* a separation has cost 5 frames of credit and left some
C27_Witness ==
    /\ frame.twoHands
    /\ ~DistBelow(frame.dist2, SPAWN_DISTANCE_THRESHOLD)
    /\ spawnProgressFrameCounter > 0

\* C28, as stated: in a frame of the Active, unlocked strings canvas with two
\* hands not farther apart than 0.55, the lock counter ends 5 lower, not
\* below 0, than it began.
C28_LockCounterDecays ==
    [][(/\ frame'.twoHands
        /\ isStringsActive
        /\ ~isLocked
        /\ ~DistAbove(frame'.dist2, LOCK_DISTANCE_THRESHOLD))
       => lockProgressFrameCounter' = Max(0, lockProgressFrameCounter - 5)]_vars


----------------------------------------------------------------------------
(* Silent mode: the music player with its audio buffer, its source node and
   the clock of its audio context (in ms), from the mount of the rhythm
   canvas, whose effect has called loadSong, through the settling of the
   load, the play and stop effects and the frames *)

SilentMaxTime == 1600               \* the audio-context clock is followed up to here
SilentDts == {100, 450}             \* what the audio-context clock advances between steps
LoadOutcomes == {"ok", "fetch rejects", "status not ok", "decode rejects"}

\* try { fetch; if (!response.ok) throw; decodeAudioData } catch { audioBuffer = null }:
\* the buffer after the call, and whether the promise it returned rejects
loadSong(outcome) ==
    IF outcome = "ok"
    THEN [audioBuffer |-> "buffer", rejected |-> FALSE]
    ELSE [audioBuffer |-> "null", rejected |-> FALSE]

getCurrentTime(mp) ==
    IF ~mp.isPlaying THEN mp.pausedAt ELSE mp.ctxTime - mp.startTime

\* a play() that does nothing without a buffer
playBadNeedsBuffer(mp) ==
    IF mp.isPlaying \/ mp.audioBuffer # "buffer" THEN mp
    ELSE [mp EXCEPT !.sourceNode = TRUE,
                    !.startTime = mp.ctxTime - mp.pausedAt,
                    !.isPlaying = TRUE]

play(mp) ==
    IF mp.isPlaying THEN mp
    ELSE [mp EXCEPT !.sourceNode = (mp.audioBuffer = "buffer"),
                    !.startTime = mp.ctxTime - mp.pausedAt,
                    !.isPlaying = TRUE]

stop(mp) ==
    [mp EXCEPT !.isPlaying = FALSE, !.pausedAt = 0, !.startTime = 0, !.sourceNode = FALSE]

InitSilent ==
    /\ currentView = "starry-night"
    /\ now = MountTime
    /\ latestLandmarksRef = NoSnapshot
    /\ isStringsActive = FALSE
    /\ isLocked = FALSE
    /\ isGuitarActive = FALSE
    /\ spawnProgressFrameCounter = 0
    /\ lockProgressFrameCounter = 0
    /\ hasSpawnToggledRef = FALSE
    /\ currentStringCoordsRef = null
    /\ lockedStringDataRef = null
    /\ stringVibrationRef = <<0, 0, 0>>
    /\ guitarStringsRef = <<0, 0, 0, 0, 0, 0>>
    /\ lastPluckTimeRef = 0
    /\ lastStrumTimeRef = 0
    /\ prevFingerPosRef = <<>>
    /\ frame = NoFrame
    /\ geo = NoCall
    /\ GesturesInit
    /\ musicPlayer = [isPlaying |-> FALSE, currentTime |-> 0, audioBuffer |-> "null",
                      load |-> "pending", rejected |-> FALSE, sourceNode |-> FALSE,
                      startTime |-> 0, pausedAt |-> 0, ctxTime |-> 0]
    /\ activeNotes = <<>>
    /\ nextNoteIndex = 0
    /\ noteIdCounter = 0
    /\ noteCall = NoNoteCall
    /\ noteHistory = NoHistory

\* the promise of musicPlayer.loadSong(song) settles
LoadSongSettles(outcome, dt) ==
    /\ musicPlayer.load = "pending"
    /\ musicPlayer.ctxTime + dt <= SilentMaxTime
    /\ \E r \in {loadSong(outcome)} :
         musicPlayer' = [musicPlayer EXCEPT !.audioBuffer = r.audioBuffer,
                                            !.rejected = r.rejected,
                                            !.load = outcome,
                                            !.ctxTime = @ + dt]
    /\ noteCall' = NoteCall("loadSong", 0, -1, "none", 0, {})
    /\ UNCHANGED <<activeNotes, nextNoteIndex, noteIdCounter, noteHistory>>
    /\ UNCHANGED <<canvasVars, geo>>

\* the effect with the strings locked: musicPlayer.play()
PlayEffect(dt) ==
    /\ ~musicPlayer.isPlaying
    /\ musicPlayer.ctxTime + dt <= SilentMaxTime
    /\ musicPlayer' = play([musicPlayer EXCEPT !.ctxTime = @ + dt])
    /\ noteCall' = NoteCall("play", 0, -1, "none", 0, {})
    /\ UNCHANGED <<activeNotes, nextNoteIndex, noteIdCounter, noteHistory>>
    /\ UNCHANGED <<canvasVars, geo>>

\* the effect with the strings not locked: musicPlayer.stop(), noteManager.reset()
StopEffect(dt) ==
    /\ musicPlayer.isPlaying
    /\ musicPlayer.ctxTime + dt <= SilentMaxTime
    /\ musicPlayer' = [stop([musicPlayer EXCEPT !.ctxTime = @ + dt]) EXCEPT !.currentTime = 0]
    /\ activeNotes' = <<>>
    /\ nextNoteIndex' = 0
    /\ noteIdCounter' = 0
    /\ noteCall' = NoteCall("reset", 0, -1, "none", 0, {})
    /\ noteHistory' = NoHistory
    /\ UNCHANGED <<canvasVars, geo>>

\* a frame: if (musicPlayer.isPlaying) noteManager.update(musicPlayer.getCurrentTime())
RhythmFrame(dt) ==
    /\ musicPlayer.ctxTime + dt <= SilentMaxTime
    /\ \E mp \in {[musicPlayer EXCEPT !.ctxTime = @ + dt]} :
         IF ~mp.isPlaying
         THEN /\ musicPlayer' = mp
              /\ noteCall' = NoteCall("frame", 0, -1, "none", 0, {})
              /\ UNCHANGED <<activeNotes, nextNoteIndex, noteIdCounter, noteHistory>>
         ELSE \E u \in {Update(getCurrentTime(mp))} :
              /\ musicPlayer' = [mp EXCEPT !.currentTime = getCurrentTime(mp)]
              /\ activeNotes' = u.activeNotes
              /\ nextNoteIndex' = u.nextNoteIndex
              /\ noteIdCounter' = u.noteIdCounter
              /\ noteCall' = NoteCall("update", 0, -1, "none", 0, u.activated)
              /\ noteHistory' =
                    [noteHistory EXCEPT !.activations =
                        [i \in 1..Len(Song.notes) |->
                            IF i \in u.activated THEN @[i] + 1 ELSE @[i]]]
    /\ UNCHANGED <<canvasVars, geo>>

NextSilent ==
    \/ \E outcome \in LoadOutcomes, dt \in SilentDts : LoadSongSettles(outcome, dt)
    \/ \E dt \in SilentDts : PlayEffect(dt)
    \/ \E dt \in SilentDts : StopEffect(dt)
    \/ \E dt \in SilentDts : RhythmFrame(dt)
    \/ \E stringIndex \in StringIndices : JudgePluck(stringIndex)

SpecSilent == InitSilent /\ [][NextSilent]_vars

\* the load has settled and failed
LoadFailed(mp) == mp.load \in LoadOutcomes \ {"ok"}

\* C25: after a load that failed, the promise of loadSong has not rejected and
\* the buffer is null; play() then sets isPlaying, starts no source node and
\* sets the start of the playback clock to the audio-context clock; while
\* playing, getCurrentTime() is the audio-context time since that start and
\* advances by what the audio-context clock advances; and the frames keep
\* activating every note whose appear time has come, and a pluck is judged
\* against the active notes.
C25_SilentModeKeepsJudging ==
    /\ [](LoadFailed(musicPlayer)
            => /\ ~musicPlayer.rejected
               /\ musicPlayer.audioBuffer = "null"
               /\ ~musicPlayer.sourceNode
               /\ (musicPlayer.isPlaying /\ noteCall.op = "update")
                  => \A i \in 1..Len(Song.notes) :
                        AppearTime(Song.notes[i]) <= getCurrentTime(musicPlayer)
                            => noteHistory.activations[i] = 1)
    /\ [][LoadFailed(musicPlayer)
          => /\ noteCall'.op = "play"
                => /\ musicPlayer'.isPlaying
                   /\ musicPlayer'.startTime = musicPlayer'.ctxTime
                   /\ getCurrentTime(musicPlayer') = 0
             /\ (musicPlayer.isPlaying /\ musicPlayer'.isPlaying)
                => getCurrentTime(musicPlayer') - getCurrentTime(musicPlayer)
                      = musicPlayer'.ctxTime - musicPlayer.ctxTime
             /\ (musicPlayer.isPlaying /\ noteCall'.op \in {"pluck", "tryHitNote"}
                    /\ noteCall' # noteCall)
                => /\ noteCall'.op = "tryHitNote"
                   /\ Eligible(activeNotes, noteCall'.arg) # {} => noteCall'.note # -1]_vars

\* after a failed load a pluck was judged perfect against a note of the song
C25_Witness ==
    /\ LoadFailed(musicPlayer)
    /\ musicPlayer.isPlaying
    /\ noteCall.op = "tryHitNote"
    /\ noteCall.result = "perfect"


----------------------------------------------------------------------------
(* Frames of the rhythm strings canvas with an accepted pluck: the decay of
   the vibration, the update of the notes at the playback clock, the judging
   of the pluck and the amplitude written to the vibration slot of its string *)

JudgeMaxTime == 2500                \* five frames after the mount
JudgeInstants == {850, 1000, 1120, 1400}
Plucks == StringIndices \cup {2}    \* 2: no pluck is accepted in the frame

\* the judging of an accepted pluck against the notes of the frame: the notes
\* after it, the note taken (-1: none) and the result
Judgments(notes, playing, stringIndex) ==
    IF ~playing
    THEN {[notes |-> notes, note |-> -1, result |-> "good", op |-> "pluck"]}
    ELSE IF Candidates(notes, stringIndex) = {}
    THEN {[notes |-> notes, note |-> -1, result |-> "miss", op |-> "tryHitNote"]}
    ELSE {[notes |-> [notes EXCEPT ![i].hit = TRUE], note |-> notes[i].id,
           result |-> Classify(notes[i].progress), op |-> "tryHitNote"] :
             i \in Closest(notes, Candidates(notes, stringIndex))}

JudgeFrame(currentTime, pluck) ==
    /\ now + FrameDt <= JudgeMaxTime
    /\ now' = now + FrameDt
    /\ musicPlayer.isPlaying => currentTime > musicPlayer.currentTime
    /\ lastPluckTimeRef' = IF pluck \in StringIndices THEN now' ELSE lastPluckTimeRef
    /\ pluck \in StringIndices => PluckCooldownElapsed(now', lastPluckTimeRef)
    /\ \E vib0 \in {[i \in 1..3 |-> Decay(stringVibrationRef[i])]} :
       \E u \in {IF musicPlayer.isPlaying
                 THEN Update(currentTime)
                 ELSE [activeNotes |-> activeNotes, nextNoteIndex |-> nextNoteIndex,
                       noteIdCounter |-> noteIdCounter, activated |-> {}]} :
         /\ nextNoteIndex' = u.nextNoteIndex
         /\ noteIdCounter' = u.noteIdCounter
         /\ musicPlayer' = IF musicPlayer.isPlaying
                           THEN [musicPlayer EXCEPT !.currentTime = currentTime]
                           ELSE musicPlayer
         /\ IF pluck \notin StringIndices
            THEN /\ stringVibrationRef' = vib0
                 /\ activeNotes' = u.activeNotes
                 /\ noteCall' = NoteCall("update", 0, -1, "none", 0, u.activated)
                 /\ noteHistory' =
                       [noteHistory EXCEPT !.activations =
                           [i \in 1..Len(Song.notes) |->
                               IF i \in u.activated THEN @[i] + 1 ELSE @[i]]]
            ELSE \E j \in Judgments(u.activeNotes, musicPlayer.isPlaying, pluck) :
                 /\ stringVibrationRef' =
                       [vib0 EXCEPT ![VibIndex(pluck) + 1] = Amplitude(j.result)]
                 /\ activeNotes' = j.notes
                 /\ noteCall' = NoteCall(j.op, pluck, j.note, j.result,
                                         Amplitude(j.result), u.activated)
                 /\ noteHistory' =
                       [noteHistory EXCEPT
                           !.activations =
                               [i \in 1..Len(Song.notes) |->
                                   IF i \in u.activated THEN @[i] + 1 ELSE @[i]],
                           !.hits = [id \in DOMAIN @ |->
                                        IF id = j.note THEN @[id] + 1 ELSE @[id]]]
    /\ UNCHANGED <<currentView, latestLandmarksRef, isStringsActive, isLocked,
                   isGuitarActive, spawnProgressFrameCounter, lockProgressFrameCounter,
                   hasSpawnToggledRef, currentStringCoordsRef, lockedStringDataRef,
                   guitarStringsRef, lastStrumTimeRef,
                   prevFingerPosRef, frame, gestureVars, geo>>

NextJudge ==
    \/ PlayMusic
    \/ StopAndReset
    \/ \E currentTime \in JudgeInstants, pluck \in Plucks : JudgeFrame(currentTime, pluck)

SpecJudge == InitNotes /\ [][NextJudge]_vars

\* the last frame accepted a pluck
Plucked == noteCall.op \in {"pluck", "tryHitNote"}

\* C30: a frame that accepts a pluck on the string with index 1, 0 or -1
\* leaves in slot 0, 1 or 2 of the vibration (the sequence counts from 1) 25
\* for a perfect, 20 for a good, 12 for a miss, the miss for want of a note
\* included, and 20 when no music plays; the other two slots only decay.
C30_JudgedAmplitudeInStringSlot ==
    [][(Plucked' /\ now' # now)
       => \E slot \in {IF noteCall'.arg = 1 THEN 0 ELSE IF noteCall'.arg = 0 THEN 1 ELSE 2} :
            /\ noteCall'.arg \in {-1, 0, 1}
            /\ noteCall'.result = "perfect" => stringVibrationRef'[slot + 1] = 25
            /\ noteCall'.result = "good" => stringVibrationRef'[slot + 1] = 20
            /\ noteCall'.result = "miss" => stringVibrationRef'[slot + 1] = 12
            /\ noteCall'.result \in {"perfect", "good", "miss"}
            /\ ~musicPlayer.isPlaying => noteCall'.result = "good"
            /\ (musicPlayer.isPlaying /\ noteCall'.note = -1) => noteCall'.result = "miss"
            /\ \A other \in {0, 1, 2} \ {slot} :
                  stringVibrationRef'[other + 1] <= stringVibrationRef[other + 1]]_vars

\* a perfect on string 0 has set slot 1 to 25 while slot 0 still rings from
\* an earlier pluck on string 1
C30_Witness ==
    /\ noteCall.op = "tryHitNote"
    /\ noteCall.arg = 0
    /\ noteCall.result = "perfect"
    /\ stringVibrationRef[2] = 25
    /\ stringVibrationRef[1] > 0


----------------------------------------------------------------------------
(* Amplitudes written by a hit *)

\* the string of the last hit accepted in the frame
StruckString(f) == f.pluckEvents[Len(f.pluckEvents)].string

\* C31, as stated: a frame that accepts a hit on string k leaves the struck
\* string at the plucked value and every neighbouring string at a smaller,
\* positive amplitude; on the guitar string i is left at 15 - 2 * |i - k|.
C31_HitExcitesNeighbours ==
    [][frame'.pluckEvents # <<>>
       => IF currentView = "tree-of-life"
          THEN \A n \in 1..6 :
                  /\ guitarStringsRef'[n] = 15 - 2 * Abs((n - 1) - StruckString(frame'))
                  /\ guitarStringsRef'[n] >= 5
          ELSE /\ stringVibrationRef'[VibIndex(StruckString(frame')) + 1] = PLUCKED
               /\ \A index \in {-1, 0, 1} :
                     Abs(index - StruckString(frame')) = 1
                        => /\ stringVibrationRef'[VibIndex(index) + 1] > 0
                           /\ stringVibrationRef'[VibIndex(index) + 1] < PLUCKED]_vars


\* C32, as stated, for the rhythm strings: the amplitude an accepted pluck
\* gives its string is at least the amplitude the string held when the pluck
\* came, that is, after the decay of the frame.
C32_HitResetsUpward ==
    [][(Plucked' /\ now' # now)
       => \A i \in 1..3 : stringVibrationRef'[i] >= Decay(stringVibrationRef[i])]_vars


----------------------------------------------------------------------------
(* segmentsIntersect in general position *)

\* no three of the four endpoints lie on one line
GeneralPosition(a) ==
    \A i, j, k \in 1..4 :
        (i < j /\ j < k) => Orient(a[i], a[j], a[k]) # 0

\* a and b lie strictly on opposite sides of the line through c and d
OppositeSides(a, b, c, d) ==
    \/ Orient(c, d, a) > 0 /\ Orient(c, d, b) < 0
    \/ Orient(c, d, a) < 0 /\ Orient(c, d, b) > 0

\* C33: on four endpoints of which no three are collinear, segmentsIntersect
\* is true exactly when p1, p2 lie strictly on opposite sides of the line
\* p3 p4 and p3, p4 strictly on opposite sides of the line p1 p2.
C33_ProperCrossingInGeneralPosition ==
    (geo.called /\ GeneralPosition(geo.args))
        => (geo.result <=> /\ OppositeSides(geo.args[1], geo.args[2], geo.args[3], geo.args[4])
                           /\ OppositeSides(geo.args[3], geo.args[4], geo.args[1], geo.args[2]))

\* the two diagonals of the grid's unit square were tested and found to cross
C33_Witness ==
    /\ geo.called
    /\ geo.args = <<Pt(0, 0), Pt(1, 1), Pt(0, 1), Pt(1, 0)>>
    /\ geo.result = TRUE


----------------------------------------------------------------------------
(* Locked and Dormant *)

\* C34: while the strings are locked the spawn counter is 0, and a frame in
\* which the toggle turns the strings off starts with the lock flag false: the
\* mode never goes from Locked to Dormant in one frame.
C34_NoLockedToDormant ==
    /\ [](isLocked => spawnProgressFrameCounter = 0)
    /\ [][(frame'.toggled /\ isStringsActive) => ~isLocked]_vars
    /\ [][isLocked => isStringsActive']_vars

\* the toggle has just turned the strings off, their anchors still known
C34_Witness ==
    /\ currentView = "starry-night"
    /\ frame.toggled
    /\ ~isStringsActive
    /\ ~isLocked
    /\ currentStringCoordsRef # null


----------------------------------------------------------------------------
(* The rhythm strings canvas with its music: the frames of the canvas, each
   followed by the effect that a change of isStringsActive or isLocked
   re-runs (play when locked, else stop and reset), and the App's way back
   to the landing page and into the canvas again *)

MusicDt == 100                      \* the playback clock advances this much per frame
RhythmMaxMusic == 300               \* beyond it the playback clock is followed as reading this
RhythmSnapshots == {NoSnapshot, Pair(50), Pair(200), Pair(1000)}

\* the effect body: if (isLocked && isStringsActive) play() else { stop(); reset() }
RhythmEffect(locked, mp, notes) ==
    IF locked
    THEN [musicPlayer |-> [mp EXCEPT !.isPlaying = TRUE],
          activeNotes |-> notes.activeNotes, nextNoteIndex |-> notes.nextNoteIndex,
          noteIdCounter |-> notes.noteIdCounter]
    ELSE [musicPlayer |-> [isPlaying |-> FALSE, currentTime |-> 0],
          activeNotes |-> <<>>, nextNoteIndex |-> 0, noteIdCounter |-> 0]

\* the effect cleanup: active = false, cancelAnimationFrame; the music is left alone
Unmount(mp, notes) ==
    [musicPlayer |-> mp,
     activeNotes |-> notes.activeNotes, nextNoteIndex |-> notes.nextNoteIndex,
     noteIdCounter |-> notes.noteIdCounter]

RhythmCanvasFrame(snap, nowT) ==
    /\ currentView = "starry-night"
    /\ \E eager \in UpdaterTimings : \E r \in {StarryRender(snap, nowT, eager)} :
       \E t \in {Min(musicPlayer.currentTime + MusicDt, RhythmMaxMusic)} :
       \E u \in {IF musicPlayer.isPlaying
                 THEN Update(t)
                 ELSE [activeNotes |-> activeNotes, nextNoteIndex |-> nextNoteIndex,
                       noteIdCounter |-> noteIdCounter, activated |-> {}]} :
       \E j \in (IF r.frame.pluckEvents = <<>>
                 THEN {[notes |-> u.activeNotes, note |-> -1, result |-> "none", op |-> "update"]}
                 ELSE Judgments(u.activeNotes, musicPlayer.isPlaying,
                                StruckString(r.frame))) :
       \E e \in {IF <<r.isStringsActive, r.isLocked>> = <<isStringsActive, isLocked>>
                 THEN [musicPlayer |-> IF musicPlayer.isPlaying
                                       THEN [musicPlayer EXCEPT !.currentTime = t]
                                       ELSE musicPlayer,
                       activeNotes |-> j.notes, nextNoteIndex |-> u.nextNoteIndex,
                       noteIdCounter |-> u.noteIdCounter]
                 ELSE RhythmEffect(r.isLocked /\ r.isStringsActive,
                                   IF musicPlayer.isPlaying
                                   THEN [musicPlayer EXCEPT !.currentTime = t]
                                   ELSE musicPlayer,
                                   [activeNotes |-> j.notes, nextNoteIndex |-> u.nextNoteIndex,
                                    noteIdCounter |-> u.noteIdCounter])} :
         /\ now' = r.now
         /\ latestLandmarksRef' = snap
         /\ isStringsActive' = r.isStringsActive
         /\ isLocked' = r.isLocked
         /\ spawnProgressFrameCounter' = r.spawn
         /\ hasSpawnToggledRef' = r.latch
         /\ lockProgressFrameCounter' = r.lock
         /\ currentStringCoordsRef' = r.coords
         /\ lockedStringDataRef' = r.locked
         /\ stringVibrationRef' =
               IF r.frame.pluckEvents = <<>> THEN r.vib
               ELSE [r.vib EXCEPT ![VibIndex(StruckString(r.frame)) + 1] = Amplitude(j.result)]
         /\ lastPluckTimeRef' = r.last
         /\ prevFingerPosRef' = r.prev
         /\ frame' = r.frame
         /\ musicPlayer' = e.musicPlayer
         /\ activeNotes' = e.activeNotes
         /\ nextNoteIndex' = e.nextNoteIndex
         /\ noteIdCounter' = e.noteIdCounter
         /\ noteCall' = NoteCall(j.op, 0, j.note, j.result, 0, u.activated)
    /\ UNCHANGED <<currentView, isGuitarActive, guitarStringsRef, lastStrumTimeRef,
                   noteHistory, geo, gestureVars>>

\* the App's back button: setCurrentView('landing') unmounts the canvas
Back ==
    /\ currentView = "starry-night"
    /\ currentView' = "landing"
    /\ latestLandmarksRef' = NoSnapshot
    /\ isStringsActive' = FALSE
    /\ isLocked' = FALSE
    /\ spawnProgressFrameCounter' = 0
    /\ lockProgressFrameCounter' = 0
    /\ hasSpawnToggledRef' = FALSE
    /\ currentStringCoordsRef' = null
    /\ lockedStringDataRef' = null
    /\ stringVibrationRef' = <<0, 0, 0>>
    /\ lastPluckTimeRef' = 0
    /\ prevFingerPosRef' = <<>>
    /\ frame' = NoFrame
    /\ \E e \in {Unmount(musicPlayer, [activeNotes |-> activeNotes,
                                       nextNoteIndex |-> nextNoteIndex,
                                       noteIdCounter |-> noteIdCounter])} :
         /\ musicPlayer' = e.musicPlayer
         /\ activeNotes' = e.activeNotes
         /\ nextNoteIndex' = e.nextNoteIndex
         /\ noteIdCounter' = e.noteIdCounter
    /\ noteCall' = NoteCall("unmount", 0, -1, "none", 0, {})
    /\ UNCHANGED <<now, isGuitarActive, guitarStringsRef, lastStrumTimeRef,
                   noteHistory, geo, gestureVars>>

\* the landing page's choice of the canvas: it mounts, and once the tracker
\* is loaded its effect runs with the strings not locked
SelectRhythm ==
    /\ currentView = "landing"
    /\ currentView' = "starry-night"
    /\ \E e \in {RhythmEffect(FALSE, musicPlayer, [activeNotes |-> activeNotes,
                                                   nextNoteIndex |-> nextNoteIndex,
                                                   noteIdCounter |-> noteIdCounter])} :
         /\ musicPlayer' = e.musicPlayer
         /\ activeNotes' = e.activeNotes
         /\ nextNoteIndex' = e.nextNoteIndex
         /\ noteIdCounter' = e.noteIdCounter
    /\ noteCall' = NoteCall("reset", 0, -1, "none", 0, {})
    /\ UNCHANGED <<now, latestLandmarksRef, isStringsActive, isLocked, isGuitarActive,
                   spawnProgressFrameCounter, lockProgressFrameCounter, hasSpawnToggledRef,
                   currentStringCoordsRef, lockedStringDataRef, stringVibrationRef,
                   guitarStringsRef, lastPluckTimeRef, lastStrumTimeRef, prevFingerPosRef,
                   frame, noteHistory, geo, gestureVars>>

InitRhythm ==
    /\ InitPluck
    /\ currentView = "starry-night"

NextRhythm ==
    \/ \E snap \in RhythmSnapshots : RhythmCanvasFrame(snap, Tick)
    \/ Back
    \/ SelectRhythm

SpecRhythm == InitRhythm /\ [][NextRhythm]_vars

\* the mode of the rhythm canvas is Locked
Locked == currentView = "starry-night" /\ isStringsActive /\ isLocked

\* C35, as stated: whenever the mode is not Locked the player is stopped at
\* position 0, no note is active and the next-note index is 0.
C35_MusicOnlyWhileLocked ==
    ~Locked => /\ ~musicPlayer.isPlaying
               /\ musicPlayer.currentTime = 0
               /\ activeNotes = <<>>
               /\ nextNoteIndex = 0


----------------------------------------------------------------------------
(* The MusicPlayer on its own: play, pause, stop and seek, the time-update
   loop it schedules with requestAnimationFrame, and the 'ended' events of the
   buffer source nodes it creates.  A source node fires one 'ended' event,
   when its buffer runs out or when stop() is called on it, and the browser
   delivers the event later, as a task of its own.  The clock is the audio
   context's, in ms. *)

PlayerMaxTime == 600                \* the audio-context clock is followed up to here
PlayerDt == 100                     \* what the clock advances in one step
MaxNodes == 3                       \* playbacks started in one run
SongDuration == 300                 \* song.duration
BufferDurations == {200, 300}       \* length of the decoded audio
SeekTargets == {0 - 50, 100, 300, 450}

PlayerCall(op, arg, wasPlaying, node) ==
    [op |-> op, arg |-> arg, wasPlaying |-> wasPlaying, node |-> node]

\* stopTimeUpdateLoop(); sourceNode?.stop(); sourceNode = null
DropSource(mp) ==
    [mp EXCEPT !.ended = IF mp.sourceNode # 0 /\ mp.live THEN @ \cup {mp.sourceNode} ELSE @,
               !.sourceNode = 0,
               !.live = FALSE,
               !.animationFrameId = FALSE]

PlayerStop(mp) ==
    DropSource([mp EXCEPT !.isPlaying = FALSE, !.pausedAt = 0, !.startTime = 0])

\* this.onEnd?.(), counted over the run and for the playback it ends
InvokeOnEnd(mp) ==
    [mp EXCEPT !.onEndCalls = @ + 1, !.onEndOfPlayback = @ + 1]

\* the body of loop(): onTimeUpdate, the end of the song, the next animation frame
PlayerLoop(mp) ==
    IF ~mp.isPlaying THEN [mp EXCEPT !.animationFrameId = FALSE]
    ELSE IF getCurrentTime(mp) >= SongDuration
         THEN InvokeOnEnd(PlayerStop(mp))
         ELSE [mp EXCEPT !.animationFrameId = TRUE]

PlayerPlay(mp) ==
    IF mp.isPlaying THEN mp
    ELSE PlayerLoop(
           [mp EXCEPT !.sourceNode = IF mp.audioBuffer = "buffer" THEN mp.nodes + 1 ELSE @,
                      !.live = IF mp.audioBuffer = "buffer" THEN TRUE ELSE @,
                      !.endsAt = IF mp.audioBuffer = "buffer"
                                 THEN mp.ctxTime + Max(0, mp.bufferDuration - mp.pausedAt)
                                 ELSE @,
                      !.nodes = @ + 1,
                      !.onEndOfPlayback = 0,
                      !.startTime = mp.ctxTime - mp.pausedAt,
                      !.isPlaying = TRUE])

PlayerPause(mp) ==
    IF ~mp.isPlaying THEN mp
    ELSE DropSource([mp EXCEPT !.pausedAt = getCurrentTime(mp), !.isPlaying = FALSE])

Clamped(timeMs) == Max(0, Min(timeMs, SongDuration))

PlayerSeek(mp, timeMs) ==
    IF mp.isPlaying
    THEN PlayerPlay([PlayerPause(mp) EXCEPT !.pausedAt = Clamped(timeMs)])
    ELSE [mp EXCEPT !.pausedAt = Clamped(timeMs)]

\* an onended handler that does not look at _isPlaying
onendedBadNoGuard(mp) ==
    InvokeOnEnd(PlayerStop(mp))

\* sourceNode.onended = () => { if (this._isPlaying) { this.stop(); this.onEnd?.(); } }
onended(mp) ==
    IF mp.isPlaying THEN InvokeOnEnd(PlayerStop(mp)) ELSE mp

InitPlayer ==
    /\ currentView = "starry-night"
    /\ now = MountTime
    /\ latestLandmarksRef = NoSnapshot
    /\ isStringsActive = FALSE
    /\ isLocked = FALSE
    /\ isGuitarActive = FALSE
    /\ spawnProgressFrameCounter = 0
    /\ lockProgressFrameCounter = 0
    /\ hasSpawnToggledRef = FALSE
    /\ currentStringCoordsRef = null
    /\ lockedStringDataRef = null
    /\ stringVibrationRef = <<0, 0, 0>>
    /\ guitarStringsRef = <<0, 0, 0, 0, 0, 0>>
    /\ lastPluckTimeRef = 0
    /\ lastStrumTimeRef = 0
    /\ prevFingerPosRef = <<>>
    /\ frame = NoFrame
    /\ geo = NoCall
    /\ GesturesInit
    /\ \E buffer \in {"buffer", "null"}, d \in BufferDurations :
         musicPlayer = [isPlaying |-> FALSE, currentTime |-> 0, audioBuffer |-> buffer,
                        bufferDuration |-> d, sourceNode |-> 0, live |-> FALSE, endsAt |-> 0,
                        nodes |-> 0, ended |-> {}, animationFrameId |-> FALSE,
                        onEndCalls |-> 0, onEndOfPlayback |-> 0, startTime |-> 0, pausedAt |-> 0, ctxTime |-> 0,
                        call |-> PlayerCall("none", 0, FALSE, 0)]
    /\ activeNotes = <<>>
    /\ nextNoteIndex = 0
    /\ noteIdCounter = 0
    /\ noteCall = NoNoteCall
    /\ noteHistory = NoHistory

\* the player after an operation, with the position a caller would read
After(mp, call) ==
    [mp EXCEPT !.currentTime = getCurrentTime(mp), !.call = call]

PlayerStep(mp) ==
    /\ musicPlayer' = mp
    /\ UNCHANGED <<canvasVars, geo, activeNotes, nextNoteIndex, noteIdCounter, noteCall,
                   noteHistory>>

\* the audio clock advances; a live source whose buffer has run out fires 'ended'
AudioClock ==
    /\ musicPlayer.ctxTime + PlayerDt <= PlayerMaxTime
    /\ \E mp \in {[musicPlayer EXCEPT !.ctxTime = @ + PlayerDt]} :
         PlayerStep(After(
            IF mp.sourceNode # 0 /\ mp.live /\ mp.ctxTime >= mp.endsAt
            THEN [mp EXCEPT !.live = FALSE, !.ended = @ \cup {mp.sourceNode}]
            ELSE mp,
            PlayerCall("clock", 0, musicPlayer.isPlaying, 0)))

CallPlay ==
    /\ musicPlayer.nodes < MaxNodes
    /\ PlayerStep(After(PlayerPlay(musicPlayer),
                        PlayerCall("play", 0, musicPlayer.isPlaying, 0)))

CallPause ==
    /\ musicPlayer' = After(PlayerPause(musicPlayer),
                            PlayerCall("pause", 0, musicPlayer.isPlaying, 0))
    /\ UNCHANGED <<canvasVars, geo, activeNotes, nextNoteIndex, noteIdCounter, noteCall,
                   noteHistory>>

CallStop ==
    /\ musicPlayer' = After(PlayerStop(musicPlayer),
                            PlayerCall("stop", 0, musicPlayer.isPlaying, 0))
    /\ UNCHANGED <<canvasVars, geo, activeNotes, nextNoteIndex, noteIdCounter, noteCall,
                   noteHistory>>

CallSeek(timeMs) ==
    /\ musicPlayer.nodes < MaxNodes
    /\ PlayerStep(After(PlayerSeek(musicPlayer, timeMs),
                        PlayerCall("seek", timeMs, musicPlayer.isPlaying, 0)))

\* the browser delivers the 'ended' event of a source node
EndedEvent(node) ==
    /\ node \in musicPlayer.ended
    /\ PlayerStep(After(onended([musicPlayer EXCEPT !.ended = @ \ {node}]),
                        PlayerCall("ended", 0, musicPlayer.isPlaying, node)))

\* the browser runs the animation frame the loop asked for
AnimationFrame ==
    /\ musicPlayer.animationFrameId
    /\ PlayerStep(After(PlayerLoop(musicPlayer),
                        PlayerCall("loop", 0, musicPlayer.isPlaying, 0)))

NextPlayer ==
    \/ AudioClock
    \/ CallPlay
    \/ CallPause
    \/ CallStop
    \/ \E timeMs \in SeekTargets : CallSeek(timeMs)
    \/ \E node \in 1..MaxNodes : EndedEvent(node)
    \/ AnimationFrame

SpecPlayer == InitPlayer /\ [][NextPlayer]_vars

\* C36, as stated: seek(t) on a playing player leaves it playing at
\* clamp(t, 0, song.duration); no 'ended' event of a source that was replaced
\* stops the player, moves the position to 0 or invokes onEnd; seek(t) on a
\* player that is not playing only sets the paused position to the clamped value.
C36_SeekKeepsPlaying ==
    [][/\ (musicPlayer'.call.op = "seek" /\ musicPlayer'.call.wasPlaying /\ musicPlayer' # musicPlayer)
            => /\ musicPlayer'.isPlaying
               /\ musicPlayer'.currentTime = Clamped(musicPlayer'.call.arg)
       /\ (musicPlayer'.call.op = "ended" /\ musicPlayer' # musicPlayer
             /\ musicPlayer'.call.node # musicPlayer.sourceNode)
            => /\ musicPlayer'.isPlaying = musicPlayer.isPlaying
               /\ musicPlayer'.pausedAt = musicPlayer.pausedAt
               /\ musicPlayer'.onEndCalls = musicPlayer.onEndCalls
       /\ (musicPlayer'.call.op = "seek" /\ ~musicPlayer'.call.wasPlaying /\ musicPlayer' # musicPlayer)
            => musicPlayer' = [musicPlayer EXCEPT
                                 !.pausedAt = Clamped(musicPlayer'.call.arg),
                                 !.currentTime = Clamped(musicPlayer'.call.arg),
                                 !.call = musicPlayer'.call]]_vars

\* C37: onEnd is invoked at most once for a playback, whichever of the
\* time-update loop and the 'ended' event sees the end first; a step that
\* invokes it leaves the player not playing at position 0; pause() and stop()
\* do not invoke it.
C37_OnEndOncePerPlayback ==
    /\ [](musicPlayer.onEndOfPlayback <= 1)
    /\ [][musicPlayer'.onEndCalls # musicPlayer.onEndCalls
            => /\ musicPlayer'.onEndCalls = musicPlayer.onEndCalls + 1
               /\ ~musicPlayer'.isPlaying
               /\ musicPlayer'.currentTime = 0
               /\ musicPlayer'.call.op \notin {"pause", "stop"}]_vars

\* the loop has seen the end of the song and invoked onEnd while the 'ended'
\* event of the same source is still to be delivered
C37_Witness ==
    /\ musicPlayer.call.op = "loop"
    /\ musicPlayer.onEndOfPlayback = 1
    /\ musicPlayer.ended # {}


----------------------------------------------------------------------------
(* The string a hit is attributed to *)

\* C38: a hit is attributed to the first string, in the order of the segment
\* list, that the emitting fingertip's motion intersects: the highest index
\* (1, then 0, then -1) on the strings canvas, the lowest index on the guitar,
\* whichever string the fingertip reached first along its motion.
C38_HitGoesToFirstListedString ==
    \A e \in 1..Len(frame.pluckEvents) :
       LET ev == frame.pluckEvents[e] IN
       /\ <<ev.tip, ev.string>> \in frame.crossed
       /\ ev.string = FirstCrossed(frame, ev.tip)
       /\ \A c \in frame.crossed :
             c[1] = ev.tip =>
                IF currentView = "tree-of-life" THEN ev.string <= c[2] ELSE ev.string >= c[2]

\* a fingertip has come over all three strings from the side of string -1,
\* which it met first, and the hit names string 1
C38_Witness ==
    /\ currentView = "starry-night"
    /\ Len(frame.pluckEvents) = 1
    /\ Len(frame.currentStringLines) = 3
    /\ LET ev == frame.pluckEvents[1] IN
       /\ ev.string = 1
       /\ {<<ev.tip, 1>>, <<ev.tip, 0>>, <<ev.tip, -1>>} \subseteq frame.crossed
       /\ ev.tip \in DOMAIN prevFingerPosRef
       /\ prevFingerPosRef[ev.tip].y > frame.currentStringLines[1].p1.y
       /\ frame.currentStringLines[1].p1.y > frame.currentStringLines[3].p1.y


----------------------------------------------------------------------------
(* Frames that find the fingertips where the last frame left them *)

\* C39: a frame in which every fingertip is at its stored previous position
\* emits no PluckEvent, no motion segment of it intersects a string, and its
\* hold counters advance as in any other frame.
C39_RestingFingertipsPluckNothing ==
    [][(frame'.rested /\ now' # now)
          => /\ frame'.pluckEvents = <<>>
             /\ frame'.audioRequests = 0
             /\ frame'.crossed = {}
             /\ (/\ currentView = "starry-night" /\ isStringsActive /\ ~isLocked
                 /\ frame'.twoHands
                 /\ DistAbove(frame'.dist2, LOCK_DISTANCE_THRESHOLD))
                   => IF lockProgressFrameCounter + 1 >= LOCK_TIME_REQUIRED
                      THEN frame'.lockedNow /\ lockProgressFrameCounter' = 0
                      ELSE lockProgressFrameCounter' = lockProgressFrameCounter + 1
             /\ (/\ frame'.twoHands /\ ~hasSpawnToggledRef
                 /\ DistBelow(frame'.dist2, SPAWN_DISTANCE_THRESHOLD))
                   => IF spawnProgressFrameCounter + 1 >= SPAWN_TIME_REQUIRED
                      THEN frame'.toggled /\ spawnProgressFrameCounter' = 0
                      ELSE spawnProgressFrameCounter' = spawnProgressFrameCounter + 1]_vars

\* a frame on the snapshot of the frame before it, with the hands apart and the
\* cooldown over: nothing plucked, the lock hold counted
C39_Witness ==
    /\ frame.rested
    /\ currentView = "starry-night"
    /\ frame.isLocking
    /\ lockProgressFrameCounter >= 2
    /\ now - lastPluckTimeRef > PLUCK_COOLDOWN
    /\ frame.pluckEvents = <<>>


----------------------------------------------------------------------------
(* The drum experience: one run of the useFrame callback of DrumSystem per
   step, on the Results the tracker delivered last.  Positions are in
   hundredths of a world unit; the overlay canvas is 320 x 240 px under an
   orthographic camera of zoom 25.  The state set by a frame is committed
   before the next frame runs. *)

DrumMaxTime == 2520                 \* the clock of the drum runs is followed up to here
DrumDts == {100, 160}               \* frame periods, in ms
ViewportWidth == 1280               \* viewport.width = 320 / 25
ViewportHeight == 960               \* viewport.height = 240 / 25

\* index fingertips: on the kick, inside its hitbox but outside the drum, just
\* outside the hitbox, and on the snare
DrumTips == {Pt(500, 760), Pt(500, 604), Pt(500, 572), Pt(734, 552)}

DrumHand(tip) == 8 :> tip

\* Results with multiHandLandmarks of zero, one or two hands, and Results
\* without multiHandLandmarks
DrumResults ==
    {[current |-> TRUE, some |-> FALSE, hands |-> <<>>],
     [current |-> TRUE, some |-> TRUE, hands |-> <<>>]}
    \cup {[current |-> TRUE, some |-> TRUE, hands |-> <<DrumHand(t)>>] : t \in DrumTips}
    \cup {[current |-> TRUE, some |-> TRUE, hands |-> <<DrumHand(t), DrumHand(u)>>] :
            t \in DrumTips, u \in DrumTips}

\* handX = (1 - tip.x) * viewport.width - viewport.width / 2, and handY alike
HandX(tip) == ((NORM - tip.x) * ViewportWidth) \div NORM - ViewportWidth \div 2
HandY(tip) == ((NORM - tip.y) * ViewportHeight) \div NORM - ViewportHeight \div 2

\* dist < drum.radius * 1.5, on squares
InHitbox(tip, drum) ==
    LET dx == HandX(tip) - drum.x
        dy == HandY(tip) - drum.y
    IN  4 * (dx * dx + dy * dy) < 9 * drum.radius * drum.radius

\* Reset hit states if enough time passed
ResetHits(nowT) ==
    [d \in DrumIds |->
        IF hitStates[d] /\ nowT - lastHitTime[d] > 150 THEN FALSE ELSE hitStates[d]]

\* !hitStates[drum.id] && now - (lastHitTime.current[drum.id] || 0) > 200
Debounced(last, id, nowT) == ~hitStates[id] /\ nowT - last[id] > 200

\* DRUMS.forEach(drum => ...) for one hand, from drum i on
RECURSIVE HitDrums(_, _, _, _)
HitDrums(acc, tip, i, nowT) ==
    IF i > Len(DRUMS) THEN acc
    ELSE LET drum == DRUMS[i]
             next == IF InHitbox(tip, drum) /\ Debounced(acc.last, drum.id, nowT)
                     THEN [new |-> [acc.new EXCEPT ![drum.id] = TRUE],
                           last |-> [acc.last EXCEPT ![drum.id] = nowT],
                           hits |-> Append(acc.hits, drum.id)]
                     ELSE acc
         IN  HitDrums(next, tip, i + 1, nowT)

\* hands.forEach(landmarks => ...), from hand h on
RECURSIVE HitHands(_, _, _, _)
HitHands(acc, hands, h, nowT) ==
    IF h > Len(hands) THEN acc
    ELSE HitHands(HitDrums(acc, hands[h][8], 1, nowT), hands, h + 1, nowT)

\* the useFrame callback: what it leaves in hitStates and lastHitTime, the drums
\* it triggered (playSound and onHit), in order, and whether it ran at all
UseFrame(results, nowT) ==
    IF ~results.current \/ ~results.some
    THEN [new |-> hitStates, last |-> lastHitTime, hits |-> <<>>, ran |-> FALSE]
    ELSE LET acc == HitHands([new |-> ResetHits(nowT), last |-> lastHitTime, hits |-> <<>>],
                             results.hands, 1, nowT)
         IN  [new |-> acc.new, last |-> acc.last, hits |-> acc.hits, ran |-> TRUE]

InitDrum ==
    /\ currentView = "guernica"
    /\ now = MountTime
    /\ latestLandmarksRef = NoSnapshot
    /\ isStringsActive = FALSE
    /\ isLocked = FALSE
    /\ isGuitarActive = FALSE
    /\ spawnProgressFrameCounter = 0
    /\ lockProgressFrameCounter = 0
    /\ hasSpawnToggledRef = FALSE
    /\ currentStringCoordsRef = null
    /\ lockedStringDataRef = null
    /\ stringVibrationRef = <<0, 0, 0>>
    /\ guitarStringsRef = <<0, 0, 0, 0, 0, 0>>
    /\ lastPluckTimeRef = 0
    /\ lastStrumTimeRef = 0
    /\ prevFingerPosRef = <<>>
    /\ frame = [hits |-> <<>>, ran |-> FALSE]
    /\ geo = NoCall
    /\ NotesInit
    /\ GesturesInit

\* a frame of the drum canvas, on the Results delivered since the last one
DrumFrame(results, dt) ==
    /\ currentView = "guernica"
    /\ now + dt <= DrumMaxTime
    /\ \E r \in {UseFrame(results, now + dt)} :
         /\ now' = now + dt
         /\ handResults' = results
         /\ hitStates' = r.new
         /\ lastHitTime' = r.last
         /\ frame' = [hits |-> r.hits, ran |-> r.ran]
    /\ UNCHANGED <<latestLandmarksRef, isStringsActive, isLocked, isGuitarActive,
                   spawnProgressFrameCounter, lockProgressFrameCounter, hasSpawnToggledRef,
                   currentStringCoordsRef, lockedStringDataRef, stringVibrationRef,
                   guitarStringsRef, lastPluckTimeRef, lastStrumTimeRef, prevFingerPosRef,
                   currentView, utilVars, onExit, openHoldStartRef, openTriggeredRef,
                   melodyIndex, pinchStartTimeRef, pinchHasToggledRef, pinchProgressRef,
                   toggleFlashUntilRef, handCall>>

\* a frame before the tracker has delivered anything
DrumFrameWithoutResults(dt) ==
    /\ ~handResults.current
    /\ DrumFrame(NullResults, dt)

NextDrum ==
    \/ \E results \in DrumResults, dt \in DrumDts : DrumFrame(results, dt)
    \/ \E dt \in DrumDts : DrumFrameWithoutResults(dt)

SpecDrum == InitDrum /\ [][NextDrum]_vars

\* C40, as stated: two triggers of one drum are more than 200 ms apart; a frame
\* triggers a drum at most once, also with both index fingertips in its
\* hitbox; the highlight of a drum is cleared by the frame that finds more than
\* 150 ms passed since the drum's last trigger.
C40_DrumDebounce ==
    [][now' # now =>
         \A d \in DrumIds :
            LET triggers == {k \in 1..Len(frame'.hits) : frame'.hits[k] = d} IN
            /\ Cardinality(triggers) <= 1
            /\ triggers # {} => now' - lastHitTime[d] > 200 /\ lastHitTime'[d] = now'
            /\ triggers = {} => lastHitTime'[d] = lastHitTime[d]
            /\ (hitStates[d] /\ now' - lastHitTime[d] > 150) => ~hitStates'[d]]_vars

=============================================================================
